---- MODULE Spec2Model ----
(***************************************************************************)
(* A model of the hierarchical page index: the tiered node store           *)
(* (app/storage/lazy_store.py), the balanced indexer                        *)
(* (app/indexing/balanced_indexer.py), the build of the global root         *)
(* (app/index_manager.py) and the level-synchronous traversal               *)
(* (app/retrieval/engine.py).                                               *)
(*                                                                         *)
(* Conventions.  An optional value (Python's None or a value) is a         *)
(* sequence of length 0 or 1.  A hash (sha256 of a string) is modelled by   *)
(* the string it is taken of, that is, as collision free.  A critical      *)
(* section (with self._lock) is one atomic step; what runs outside the     *)
(* lock is a step of its own.                                              *)
(***************************************************************************)
EXTENDS Integers, Sequences, FiniteSets, TLC

VARIABLES
    \* ---- LazyNodeStore: the files under index_root and the two instances' caches
    disk,       \* path -> node: the node files holding complete JSON
    torn,       \* the paths whose file exists but holds no parsable JSON
    rootPtr,    \* root.json: <<>> or <<[root_id, metadata]>>
    cache,      \* store instance -> the OrderedDict _cache, least recently used first
    maxCache,   \* max_cache_size
    metrics,    \* MetricsCollector._state, the counters
    \* ---- threads calling save_node / load_node
    th,         \* thread -> the call in progress, its position, how it was issued
    ops,        \* <<the calls started, those started while another was running>>
    \* ---- history of the store calls (read by the properties only)
    ret,        \* the call that returned in the very last step, with its result
    touched,    \* the node ids in the order of their last touch, latest last
    lastEvict,  \* the evictions of the last cache admission
    saved,      \* node id -> the record last written under it, if any
    everSaved,  \* the ids a save_node was ever called with
    admitted,   \* store instance -> the ids its cache ever admitted
    seqOnly,    \* no two calls have overlapped so far
    \* ---- BalancedHierarchicalIndexer and PageIndexManager.build_index
    cfg,        \* chunk_size_words, max_children_per_node, max_depth of the indexer
    docsDir,    \* the supported files of docs_dir in sorted order: name and text stream
    build,      \* the build in progress: position, document, tree, results so far
    indexFile,  \* index.json: <<>> or <<payload>>
    \* ---- TraversalEngine.traverse
    trav,       \* the traversal in progress: position, locals, what it returned
    \* ---- the documents folder and the clock of the machine
    uploads,    \* the uploads so far
    clock,      \* time.time(), in whole seconds
    \* ---- PageIndexManager and the payload file
    indexTorn,        \* index.json exists but holds no parsable JSON
    indexFileMtime,   \* st_mtime of index.json
    index_data,       \* _index_data: <<>> or <<payload>>
    index_file_mtime, \* _index_file_mtime: <<>> or <<st_mtime>>
    data_lock,        \* _data_lock: <<>> or <<the thread holding it>>
    \* ---- the API process: its rebuild lock, its worker threads, the QueryEngine
    rebuild_lock,     \* _rebuild_lock: <<>> or <<the thread holding it>>
    upload_jobs,      \* _upload_jobs: job id -> status, filename, error
    svc,        \* worker thread -> the call it is in: position and locals
    engine,     \* QueryEngine: initialised, index_data, the two caches
    crashes,    \* the times the process died and was started again
    \* ---- history of the service calls (read by the properties only)
    builds,     \* the builds that completed
    last,       \* what the very last step ended or made known, for the properties
    \* ---- TraversalEventBus
    loop,       \* _loop is attached
    subscribers,  \* _subscribers: the queues, in subscription order
    mailbox,    \* queue -> the events it holds, oldest first
    callbacks,  \* the calls scheduled on the loop by call_soon_threadsafe, in order
    published,  \* the events published so far
    \* ---- the process of main.py's "Rebuild index", beside the API process
    cli,        \* its build in progress: position and locals
    \* ---- the classes PageIndexManager and QueryEngine
    classes     \* class -> _instance, the objects made, the calls of each thread

storeVars == <<disk, torn, rootPtr, cache, maxCache, metrics>>
threadVars == <<th, ops>>
histVars == <<ret, touched, lastEvict, saved, everSaved, admitted, seqOnly>>
buildVars == <<cfg, docsDir, build, indexFile>>
docVars == <<uploads, clock>>
mgrVars == <<indexTorn, indexFileMtime, index_data, index_file_mtime, data_lock>>
apiVars == <<rebuild_lock, svc, engine, crashes>>
auditVars == <<builds, last>>
busVars == <<loop, subscribers, mailbox, callbacks, published>>
serviceVars == <<docVars, mgrVars, apiVars, auditVars, busVars, cli, upload_jobs, classes>>
vars == <<storeVars, threadVars, histVars, buildVars, trav, serviceVars>>

(***************************************************************************)
(* Bounds of the model.                                                    *)
(***************************************************************************)
MaxCacheSize == 2
MaxOps == 4
MaxOverlaps == 1
MaxWords == 4
MaxChunkWords == 2
MaxFanout == 3
MaxDepthCfg == 2
MaxDocs == 21
MaxTopK == 2
MaxTraversals == 1

Threads == {"t1", "t2"}
Stores == {"manager", "engine"}

\* The records the callers of the store model save, and the loads they issue:
\* three ids, one of them saved at two levels (one outside LEVEL_DIRS) and with
\* two contents.
NodeIds == {"a", "b", "c"}
StoreNodes ==
    {[id |-> "a", level |-> 0, ver |-> 1], [id |-> "a", level |-> 0, ver |-> 2],
     [id |-> "a", level |-> 7, ver |-> 1], [id |-> "b", level |-> 0, ver |-> 1],
     [id |-> "c", level |-> 0, ver |-> 1]}
Loads ==
    {<<"a", <<>> >>, <<"a", <<0>> >>, <<"a", <<7>> >>, <<"b", <<>> >>, <<"b", <<7>> >>,
     <<"c", <<>> >>}

(***************************************************************************)
(* LazyNodeStore                                                           *)
(***************************************************************************)
LEVEL_DIRS ==
    [l \in 0..6 |->
        CASE l = 0 -> "root"
          [] l = 1 -> "volumes"
          [] l = 2 -> "chapters"
          [] l = 3 -> "sections"
          [] l = 4 -> "chunks"
          [] l = 5 -> "chunks_l5"
          [] OTHER -> "chunks_l6"]

\* The levels in LEVEL_DIRS.keys() order.
LevelKeys == <<0, 1, 2, 3, 4, 5, 6>>

PathFor(node_id, level) ==
    <<IF level \in DOMAIN LEVEL_DIRS THEN LEVEL_DIRS[level] ELSE "chunks_l6", node_id>>

PathExists(d, tn, path) == path \in DOMAIN d \/ path \in tn

\* open(path, "w"): the file exists and is empty.
Truncate(d, path) == [p \in DOMAIN d \ {path} |-> d[p]]

WriteFile(d, path, node) == [p \in DOMAIN d \cup {path} |-> IF p = path THEN node ELSE d[p]]

InCache(c, node_id) == \E i \in 1..Len(c) : c[i].id = node_id

IndexOf(c, node_id) == CHOOSE i \in 1..Len(c) : c[i].id = node_id

CacheGet(c, node_id) == c[IndexOf(c, node_id)]

\* self._cache[node["id"]] = node: a new key goes last, a known key keeps its place.
CacheSet(c, node) ==
    IF InCache(c, node.id) THEN [c EXCEPT ![IndexOf(c, node.id)] = node] ELSE Append(c, node)

MoveToEndFifo(c, node_id) == c

\* self._cache.move_to_end(node_id)
MoveToEnd(c, node_id) ==
    LET i == IndexOf(c, node_id)
    IN SubSeq(c, 1, i - 1) \o SubSeq(c, i + 1, Len(c)) \o <<c[i]>>

RECURSIVE EvictOverOffByOne(_, _)
EvictOverOffByOne(c, max) ==
    IF Len(c) > max + 1 THEN EvictOverOffByOne(Tail(c), max) ELSE c

\* while len(self._cache) > self.max_cache_size: self._cache.popitem(last=False)
RECURSIVE EvictOver(_, _)
EvictOver(c, max) == IF Len(c) > max THEN EvictOver(Tail(c), max) ELSE c

\* self._cache[node_id] = node; self._cache.move_to_end(node_id)
Admitted(c, node) == MoveToEnd(CacheSet(c, node), node.id)

CachePutNoAdmit(c, node, max) == c

\* The critical section of save_node, and of load_node after a disk hit.
CachePut(c, node, max) == EvictOver(Admitted(c, node), max)

\* candidate_levels of load_node
CandidateLevels(level_hint) == IF level_hint # <<>> THEN level_hint ELSE LevelKeys

\* The first candidate level whose file exists, as load_node's for loop finds it:
\* <<>> when there is none.
RECURSIVE FirstExisting(_, _, _, _)
FirstExisting(d, tn, node_id, levels) ==
    IF levels = <<>> THEN <<>>
    ELSE IF PathExists(d, tn, PathFor(node_id, Head(levels)))
         THEN <<PathFor(node_id, Head(levels))>>
         ELSE FirstExisting(d, tn, node_id, Tail(levels))

\* MetricsCollector._state, the counters kept.
NoMetrics == [cache_hits |-> 0, cache_misses |-> 0, nodes_loaded_from_disk |-> 0,
              nodes_evaluated |-> 0, max_tree_depth_seen |-> 0, retrieval_count |-> 0]

Bump(m, key) == [m EXCEPT ![key] = @ + 1]

\* No traverse call has been made.  events is the payloads the call has handed to
\* traversal_events.publish so far, each with the round of the loop it was made in.
NoTraversal ==
    [pc |-> "idle", runs |-> 0, query |-> "", top_k |-> 1, query_terms |-> {},
     current_ids |-> <<>>, depth |-> 0, rounds |-> 0, evaluated |-> 0,
     traversal |-> <<>>, selected_nodes |-> <<>>, frontiers |-> <<>>,
     kept |-> <<>>, loaded |-> <<>>, cache_before |-> 0, disk_before |-> 0,
     events |-> <<>>, result |-> <<>>]

(***************************************************************************)
(* History: the order of the ids' last touches, and who is least recently  *)
(* touched among the cached ones.                                          *)
(***************************************************************************)
CacheIds(c) == {c[i].id : i \in 1..Len(c)}

RECURSIVE Without(_, _)
Without(q, x) ==
    IF q = <<>> THEN <<>>
    ELSE IF Head(q) = x THEN Without(Tail(q), x) ELSE <<Head(q)>> \o Without(Tail(q), x)

Touch(q, x) == Append(Without(q, x), x)

\* The k ids of c that were touched longest ago.
RECURSIVE LruIds(_, _, _)
LruIds(c, q, k) ==
    IF k = 0 \/ q = <<>> THEN {}
    ELSE IF Head(q) \in CacheIds(c)
         THEN {Head(q)} \cup LruIds(c, Tail(q), k - 1)
         ELSE LruIds(c, Tail(q), k)

\* The admission of node to the cache of store s, and what it leaves of the
\* history: node is touched now, and the ids the admission pops are logged beside
\* the as many least recently touched ids of the cache they were popped from.
Admit(s, node) ==
    LET q == Touch(touched, node.id)
        before == Admitted(cache[s], node)
        after == CachePut(cache[s], node, maxCache)
        out == CacheIds(before) \ CacheIds(after)
    IN /\ cache' = [cache EXCEPT ![s] = after]
       /\ touched' = q
       /\ lastEvict' = [out |-> out, lru |-> LruIds(before, q, Cardinality(out))]
       /\ admitted' = [admitted EXCEPT ![s] = @ \cup {node.id}]

NoIssue == [afterSave |-> <<>>, afterPromote |-> FALSE, wasEvicted |-> FALSE,
            savedAtStart |-> <<>>, neverSaved |-> FALSE]

Idle == [pc |-> "idle", store |-> "manager", id |-> "a", node |-> <<>>, hint |-> <<>>,
         clob |-> FALSE, hit |-> <<>>, iss |-> NoIssue]

NoRet == [kind |-> "none", id |-> "a", hint |-> <<>>, res |-> <<>>, prov |-> "none",
          changed |-> FALSE, iss |-> NoIssue]

Others(t) == Threads \ {t}

AllIdle(ts) == \A u \in ts : th[u].pc = "idle"

\* A call may start when the bounds of the model leave room for it.
MayStart(t) ==
    /\ th[t].pc = "idle"
    /\ ops[1] < MaxOps
    /\ AllIdle(Others(t)) \/ ops[2] < MaxOverlaps

Started(t) == <<ops[1] + 1, IF AllIdle(Others(t)) THEN ops[2] ELSE ops[2] + 1>>

(***************************************************************************)
(* save_node                                                               *)
(***************************************************************************)
\* path.write_text(...) opens the file for writing: it exists and is empty.
SaveOpen(t, s, node) ==
    /\ MayStart(t)
    /\ ops' = Started(t)
    /\ th' = [th EXCEPT ![t] = [Idle EXCEPT !.pc = "s_write", !.store = s,
                                            !.id = node.id, !.node = <<node>>]]
    /\ disk' = Truncate(disk, PathFor(node.id, node.level))
    /\ torn' = torn \cup {PathFor(node.id, node.level)}
    /\ everSaved' = everSaved \cup {node.id}
    /\ seqOnly' = (seqOnly /\ AllIdle(Others(t)))
    /\ ret' = NoRet
    /\ UNCHANGED <<rootPtr, cache, maxCache, metrics>>
    /\ UNCHANGED <<touched, lastEvict, saved, admitted>>
    /\ UNCHANGED <<buildVars, trav, serviceVars>>

\* path.write_text(...) writes the JSON at offset 0 and closes.  When another
\* writer of the same file wrote since this one opened it, what is left may be
\* this JSON or this JSON followed by the rest of the other one.
SaveWrite(t) ==
    /\ th[t].pc = "s_write"
    /\ LET node == th[t].node[1]
           path == PathFor(node.id, node.level)
       IN /\ \E whole \in (IF th[t].clob THEN BOOLEAN ELSE {TRUE}) :
                IF whole
                THEN /\ disk' = WriteFile(disk, path, node)
                     /\ torn' = torn \ {path}
                     /\ saved' = [saved EXCEPT ![node.id] = <<node>>]
                ELSE /\ disk' = Truncate(disk, path)
                     /\ torn' = torn \cup {path}
                     /\ saved' = [saved EXCEPT ![node.id] = <<>>]
          /\ th' = [u \in Threads |->
                      IF u = t THEN [th[t] EXCEPT !.pc = "s_cache"]
                      ELSE IF th[u].pc = "s_write"
                              /\ PathFor(th[u].node[1].id, th[u].node[1].level) = path
                           THEN [th[u] EXCEPT !.clob = TRUE]
                           ELSE th[u]]
    /\ ret' = NoRet
    /\ UNCHANGED <<rootPtr, cache, maxCache, metrics, ops>>
    /\ UNCHANGED <<touched, lastEvict, everSaved, admitted, seqOnly>>
    /\ UNCHANGED <<buildVars, trav, serviceVars>>

\* with self._lock: admit the node, evict past capacity.
SaveCache(t) ==
    /\ th[t].pc = "s_cache"
    /\ Admit(th[t].store, th[t].node[1])
    /\ th' = [th EXCEPT ![t] = Idle]
    /\ ret' = [NoRet EXCEPT !.kind = "save", !.id = th[t].id, !.res = th[t].node,
                            !.prov = "saved", !.changed = TRUE]
    /\ UNCHANGED <<disk, torn, rootPtr, maxCache, metrics, ops>>
    /\ UNCHANGED <<saved, everSaved, seqOnly>>
    /\ UNCHANGED <<buildVars, trav, serviceVars>>

(***************************************************************************)
(* load_node                                                               *)
(***************************************************************************)
\* How a load_node of node_id on store s is issued, for the properties.
Issue(t, s, node_id) ==
    [afterSave |-> IF ret.kind = "save" /\ ret.id = node_id THEN ret.res ELSE <<>>,
     afterPromote |-> ret.kind = "load" /\ ret.prov = "disk" /\ ret.res # <<>>
                      /\ ret.id = node_id,
     wasEvicted |-> node_id \in admitted[s] /\ ~InCache(cache[s], node_id),
     savedAtStart |-> saved[node_id],
     neverSaved |-> node_id \notin everSaved]

\* with self._lock: the cache lookup.
LoadCheck(t, s, node_id, level_hint) ==
    /\ MayStart(t)
    /\ ops' = Started(t)
    /\ LET c == cache[s]
       IN IF InCache(c, node_id)
          THEN /\ cache' = [cache EXCEPT ![s] = MoveToEnd(c, node_id)]
               /\ metrics' = Bump(metrics, "cache_hits")
               /\ touched' = Touch(touched, node_id)
               /\ th' = [th EXCEPT ![t] = Idle]
               /\ ret' = [kind |-> "load", id |-> node_id, hint |-> level_hint,
                          res |-> <<CacheGet(c, node_id)>>, prov |-> "cache",
                          changed |-> (MoveToEnd(c, node_id) # c),
                          iss |-> Issue(t, s, node_id)]
          ELSE /\ metrics' = Bump(metrics, "cache_misses")
               /\ th' = [th EXCEPT ![t] = [Idle EXCEPT !.pc = "l_scan", !.store = s,
                                                       !.id = node_id,
                                                       !.hint = level_hint,
                                                       !.iss = Issue(t, s, node_id)]]
               /\ ret' = NoRet
               /\ UNCHANGED <<cache, touched>>
    /\ seqOnly' = (seqOnly /\ AllIdle(Others(t)))
    /\ UNCHANGED <<disk, torn, rootPtr, maxCache>>
    /\ UNCHANGED <<lastEvict, saved, everSaved, admitted>>
    /\ UNCHANGED <<buildVars, trav, serviceVars>>

\* The scan of the candidate levels: no file is a miss, an unparsable file
\* returns (None, "disk"), a parsed one goes on to the admission.
LoadScan(t) ==
    /\ th[t].pc = "l_scan"
    /\ LET found == FirstExisting(disk, torn, th[t].id, CandidateLevels(th[t].hint))
           back == [kind |-> "load", id |-> th[t].id, hint |-> th[t].hint, res |-> <<>>,
                    prov |-> "miss", changed |-> FALSE, iss |-> th[t].iss]
       IN IF found = <<>>
          THEN /\ th' = [th EXCEPT ![t] = Idle]
               /\ ret' = back
               /\ UNCHANGED metrics
          ELSE IF found[1] \in torn
          THEN /\ th' = [th EXCEPT ![t] = Idle]
               /\ ret' = [back EXCEPT !.prov = "disk"]
               /\ UNCHANGED metrics
          ELSE /\ th' = [th EXCEPT ![t].pc = "l_put", ![t].hit = <<disk[found[1]]>>]
               /\ metrics' = Bump(metrics, "nodes_loaded_from_disk")
               /\ ret' = NoRet
    /\ UNCHANGED <<disk, torn, rootPtr, cache, maxCache, ops>>
    /\ UNCHANGED <<touched, lastEvict, saved, everSaved, admitted, seqOnly>>
    /\ UNCHANGED <<buildVars, trav, serviceVars>>

\* with self._lock: admit the node read from disk, evict past capacity.  The key
\* is the id asked for, which is the id of the node in the file of that name.
LoadPut(t) ==
    /\ th[t].pc = "l_put"
    /\ Admit(th[t].store, th[t].hit[1])
    /\ th' = [th EXCEPT ![t] = Idle]
    /\ ret' = [kind |-> "load", id |-> th[t].id, hint |-> th[t].hint, res |-> th[t].hit,
               prov |-> "disk", changed |-> TRUE, iss |-> th[t].iss]
    /\ UNCHANGED <<disk, torn, rootPtr, maxCache, metrics, ops>>
    /\ UNCHANGED <<saved, everSaved, seqOnly>>
    /\ UNCHANGED <<buildVars, trav, serviceVars>>

(***************************************************************************)
(* Text: str.split(), " ".join(...)                                        *)
(***************************************************************************)
WhiteSpace == {" "}

\* text.split(): the maximal runs of characters that are no white space.
RECURSIVE SplitFrom(_, _)
SplitFrom(text, word) ==
    IF text = "" THEN (IF word = "" THEN <<>> ELSE <<word>>)
    ELSE IF Head(text) \in WhiteSpace
         THEN (IF word = "" THEN <<>> ELSE <<word>>) \o SplitFrom(Tail(text), "")
         ELSE SplitFrom(Tail(text), word \o Head(text))

Split(text) == SplitFrom(text, "")

RECURSIVE Join(_, _)
Join(parts, sep) ==
    IF parts = <<>> THEN ""
    ELSE IF Len(parts) = 1 THEN parts[1]
    ELSE parts[1] \o sep \o Join(Tail(parts), sep)

RECURSIVE Concat(_)
Concat(seqs) == IF seqs = <<>> THEN <<>> ELSE Head(seqs) \o Concat(Tail(seqs))

NoDuplicates(seq) == \A i, j \in 1..Len(seq) : seq[i] = seq[j] => i = j

Range(seq) == {seq[i] : i \in 1..Len(seq)}

Prefix(q, n) == SubSeq(q, 1, IF Len(q) < n THEN Len(q) ELSE n)

(***************************************************************************)
(* BalancedHierarchicalIndexer                                             *)
(***************************************************************************)
DefaultChunkSizeWords == 500
DefaultMaxChildrenPerNode == 10
DefaultMaxDepth == 6
DefaultCfg == [chunk_size_words |-> DefaultChunkSizeWords,
               max_children_per_node |-> DefaultMaxChildrenPerNode,
               max_depth |-> DefaultMaxDepth]
SummaryMaxWords == 40
ChunkIdPrefixLen == 80

\* hashlib.sha256(value).hexdigest()[:16], taken to be free of collisions.
StableHash(value) == value

\* _words_from_stream
RECURSIVE WordsFromStream(_)
WordsFromStream(text_stream) ==
    IF text_stream = <<>> THEN <<>>
    ELSE Split(Head(text_stream)) \o WordsFromStream(Tail(text_stream))

\* A _chunk_words without the flush after the loop: the words left over are dropped.
RECURSIVE ChunkLoopNoFlush(_, _, _, _)
ChunkLoopNoFlush(ws, words, chunks, size) ==
    IF ws = <<>>
    THEN chunks
    ELSE LET more == Append(words, Head(ws))
         IN IF Len(more) >= size
            THEN ChunkLoopNoFlush(Tail(ws), <<>>, Append(chunks, Join(more, " ")), size)
            ELSE ChunkLoopNoFlush(Tail(ws), more, chunks, size)

\* The for loop of _chunk_words and the flush after it.
RECURSIVE ChunkLoop(_, _, _, _)
ChunkLoop(ws, words, chunks, size) ==
    IF ws = <<>>
    THEN (IF words # <<>> THEN Append(chunks, Join(words, " ")) ELSE chunks)
    ELSE LET more == Append(words, Head(ws))
         IN IF Len(more) >= size
            THEN ChunkLoop(Tail(ws), <<>>, Append(chunks, Join(more, " ")), size)
            ELSE ChunkLoop(Tail(ws), more, chunks, size)

\* _chunk_words
ChunkWords(text_stream, c) ==
    ChunkLoop(WordsFromStream(text_stream), <<>>, <<>>, c.chunk_size_words)

\* _title_for_level
TitleForLevel(level, index) ==
    CASE level = 0 -> "Root"
      [] level = 1 -> "Volume " \o ToString(index + 1)
      [] level = 2 -> "Chapter " \o ToString(index + 1)
      [] level = 3 -> "Section " \o ToString(index + 1)
      [] OTHER -> "Chunk Group " \o ToString(index + 1)

\* _summarize
Summarize(text, max_words) == Join(Prefix(Split(text), max_words), " ")

\* node["metadata"], with -1 and "" for the keys a node does not carry.
NoMetadata == [word_count |-> -1, chunk_index |-> -1, text |-> "", child_count |-> -1,
               source |-> "", max_children_per_node |-> -1, chunk_size_words |-> -1,
               max_depth |-> -1]

\* _make_node
MakeNode(node_id, parent_id, level, title, summary, fingerprint, file_path, metadata, children_ids) ==
    [id |-> node_id, parent_id |-> parent_id, children_ids |-> children_ids,
     level |-> level, title |-> title, summary |-> summary, fingerprint |-> fingerprint,
     file_path |-> file_path, metadata |-> metadata]

\* _build_leaf_nodes: chunk i (from 0) of the file.
LeafNode(chunks, i, file_path, c) ==
    LET text == chunks[i + 1]
    IN MakeNode("chunk-" \o StableHash(file_path \o ":" \o ToString(i) \o ":"
                                       \o Prefix(text, ChunkIdPrefixLen)),
                <<>>, c.max_depth, "Chunk " \o ToString(i + 1),
                Summarize(text, SummaryMaxWords), StableHash(text), file_path,
                [NoMetadata EXCEPT !.word_count = Len(Split(text)), !.chunk_index = i,
                                   !.text = text],
                <<>>)

BuildLeafNodes(chunks, file_path, c) ==
    [k \in 1..Len(chunks) |-> LeafNode(chunks, k - 1, file_path, c)]

\* The summaries of a block that are not empty, as the generator of
\* _group_children yields them.
RECURSIVE Summaries(_)
Summaries(block) ==
    IF block = <<>> THEN <<>>
    ELSE (IF Head(block).summary # "" THEN <<Head(block).summary>> ELSE <<>>)
         \o Summaries(Tail(block))

Ids(nodes) == [k \in 1..Len(nodes) |-> nodes[k].id]

\* The parent _group_children makes of one block of children.
GroupNode(block, level, i, file_path, c) ==
    LET combined_summary == Join(Summaries(block), " ")
        parent_seed == Join(Ids(block), "|")
    IN MakeNode("lvl" \o ToString(level) \o "-" \o StableHash(parent_seed),
                <<>>, level, TitleForLevel(level, i \div c.max_children_per_node),
                Summarize(combined_summary, SummaryMaxWords),
                StableHash(IF combined_summary # "" THEN combined_summary ELSE parent_seed),
                file_path, [NoMetadata EXCEPT !.child_count = Len(block)],
                Ids(block))

\* children[i : i + max_children_per_node], the slice's end (i counts from 0).
BlockEnd(cur, i, c) ==
    IF i + c.max_children_per_node < Len(cur) THEN i + c.max_children_per_node ELSE Len(cur)

\* _group_children over the nodes all[cur[1]], all[cur[2]], ...: the dicts of
\* all_nodes are shared, so the children's parent_id is set in all, and the
\* parents are appended to it (as _build_tree_nodes does with the result).
RECURSIVE GroupChildren(_, _, _, _, _, _)
GroupChildren(all, cur, i, level, file_path, c) ==
    IF i >= Len(cur) THEN [all |-> all, grouped |-> <<>>]
    ELSE LET kids == SubSeq(cur, i + 1, BlockEnd(cur, i, c))
             block == [k \in 1..Len(kids) |-> all[kids[k]]]
             node == GroupNode(block, level, i, file_path, c)
             marked == [k \in 1..Len(all) |->
                          IF \E j \in 1..Len(kids) : kids[j] = k
                          THEN [all[k] EXCEPT !.parent_id = <<node.id>>]
                          ELSE all[k]]
             rest == GroupChildren(Append(marked, node), cur,
                                   i + c.max_children_per_node, level, file_path, c)
         IN [all |-> rest.all, grouped |-> <<Len(all) + 1>> \o rest.grouped]

\* The while loop run for one pass at most.
TreeLoopOnePass(all, cur, level, file_path, c) ==
    IF Len(cur) > 1 /\ level >= 0
    THEN LET g == GroupChildren(all, cur, 0, level, file_path, c)
         IN [all |-> g.all, cur |-> g.grouped]
    ELSE [all |-> all, cur |-> cur]

\* The while loop of _build_tree_nodes.
RECURSIVE TreeLoop(_, _, _, _, _)
TreeLoop(all, cur, level, file_path, c) ==
    IF Len(cur) > 1 /\ level >= 0
    THEN LET g == GroupChildren(all, cur, 0, level, file_path, c)
         IN TreeLoop(g.all, g.grouped, level - 1, file_path, c)
    ELSE [all |-> all, cur |-> cur]

\* _build_tree_nodes: the nodes in all_nodes order and the root's place in them.
BuildTreeNodes(leaf_nodes, file_path, c) ==
    LET t == TreeLoop(leaf_nodes, [k \in 1..Len(leaf_nodes) |-> k], c.max_depth - 1,
                      file_path, c)
    IN IF t.cur = <<>>
       THEN [nodes |-> Append(t.all,
                              MakeNode("root-" \o StableHash(file_path), <<>>, 0, "Root",
                                       "Empty document", StableHash(file_path), file_path,
                                       [NoMetadata EXCEPT !.child_count = 0], <<>>)),
             root |-> Len(t.all) + 1]
       ELSE [nodes |-> [t.all EXCEPT ![t.cur[1]].level = 0, ![t.cur[1]].title = "Root"],
             root |-> t.cur[1]]

\* The metadata build_from_stream adds to a node before it saves it.
Stamped(node, c) ==
    [node EXCEPT !.metadata.max_children_per_node = c.max_children_per_node,
                 !.metadata.chunk_size_words = c.chunk_size_words,
                 !.metadata.max_depth = c.max_depth]

NoBuild == [pc |-> "idle", doc |-> 0, file_path |-> "", chunks |-> <<>>, nodes |-> <<>>,
            root |-> 0, next |-> 0, result |-> <<>>, doc_root_ids |-> <<>>,
            indexed_docs |-> <<>>]

(***************************************************************************)
(* The documents of the model: document d of n words is the first n words  *)
(* of a corpus (taken cyclically), two words a line.                       *)
(***************************************************************************)
Corpus == <<"Refund", "policy", "is", "30", "days", "for", "fees">>

Word(j) == Corpus[((j - 1) % Len(Corpus)) + 1]

DocStream(n) ==
    [k \in 1..((n + 1) \div 2) |->
        IF 2 * k <= n THEN Word(2 * k - 1) \o " " \o Word(2 * k) ELSE Word(2 * k - 1)]

DocName(d) == "d" \o ToString(d) \o ".txt"

Doc(d, n) == [name |-> DocName(d), stream |-> DocStream(n), st_mtime_ns |-> 0]

RECURSIVE DocDirs(_)
DocDirs(count) ==
    IF count = 0 THEN {<<>>}
    ELSE {Append(dir, Doc(count, n)) : dir \in DocDirs(count - 1), n \in 0..MaxWords}

Cfgs == [chunk_size_words : 1..MaxChunkWords, max_children_per_node : 2..MaxFanout,
         max_depth : 1..MaxDepthCfg]

(***************************************************************************)
(* A call of the store by the one thread that builds or traverses: the     *)
(* steps of save_node, and of load_node, one after the other.              *)
(***************************************************************************)
SavedTo(d, node) == WriteFile(d, PathFor(node.id, node.level), node)

\* load_node(node_id) with no level hint, on the cache c and the counters m.
LoadNode(c, m, node_id) ==
    IF InCache(c, node_id)
    THEN [node |-> <<CacheGet(c, node_id)>>, source |-> "cache",
          cache |-> MoveToEnd(c, node_id), metrics |-> Bump(m, "cache_hits")]
    ELSE LET found == FirstExisting(disk, torn, node_id, CandidateLevels(<<>>))
             missed == Bump(m, "cache_misses")
         IN IF found = <<>>
            THEN [node |-> <<>>, source |-> "miss", cache |-> c, metrics |-> missed]
            ELSE IF found[1] \in torn
            THEN [node |-> <<>>, source |-> "disk", cache |-> c, metrics |-> missed]
            ELSE [node |-> <<disk[found[1]]>>, source |-> "disk",
                  cache |-> CachePut(c, disk[found[1]], maxCache),
                  metrics |-> Bump(missed, "nodes_loaded_from_disk")]

(***************************************************************************)
(* build_from_stream, as _build_hierarchical_index calls it                *)
(***************************************************************************)
\* _chunk_words, _build_leaf_nodes, _build_tree_nodes: the tree in memory.
BuildTree ==
    /\ build.pc = "doc"
    /\ LET file_path == docsDir[build.doc].name
           chunks == ChunkWords(docsDir[build.doc].stream, cfg)
           tree == BuildTreeNodes(BuildLeafNodes(chunks, file_path, cfg), file_path, cfg)
       IN build' = [build EXCEPT !.pc = "save", !.file_path = file_path,
                                 !.chunks = chunks, !.nodes = tree.nodes,
                                 !.root = tree.root, !.next = 1, !.result = <<>>]
    /\ UNCHANGED <<serviceVars, storeVars, threadVars, histVars, cfg, docsDir, indexFile, trav>>

\* One turn of the for loop over nodes: the metadata and self.store.save_node(node).
SaveTreeNode ==
    /\ build.pc = "save"
    /\ build.next <= Len(build.nodes)
    /\ LET node == Stamped(build.nodes[build.next], cfg)
       IN /\ disk' = SavedTo(disk, node)
          /\ torn' = torn \ {PathFor(node.id, node.level)}
          /\ cache' = [cache EXCEPT !["manager"] = CachePut(@, node, maxCache)]
          /\ build' = [build EXCEPT !.nodes[build.next] = node, !.next = @ + 1]
    /\ UNCHANGED <<rootPtr, maxCache, metrics>>
    /\ UNCHANGED <<serviceVars, threadVars, histVars, cfg, docsDir, indexFile, trav>>

\* A build_from_stream that writes the root pointer without waiting for the loop
\* over nodes to end.
SaveRootPointerFirst ==
    /\ build.pc = "save"
    /\ LET root == build.nodes[build.root]
       IN /\ rootPtr' = <<[root_id |-> root.id,
                           metadata |-> [file_path |-> build.file_path,
                                         chunk_size_words |-> cfg.chunk_size_words,
                                         max_children_per_node |->
                                             cfg.max_children_per_node,
                                         max_depth |-> cfg.max_depth,
                                         node_count |-> Len(build.nodes)]]>>
          /\ build' = [build EXCEPT
                         !.pc = "built",
                         !.result = <<[root_id |-> root.id,
                                       node_count |-> Len(build.nodes),
                                       chunk_count |-> Len(build.chunks)]>>]
    /\ UNCHANGED <<disk, torn, cache, maxCache, metrics>>
    /\ UNCHANGED <<serviceVars, threadVars, histVars, cfg, docsDir, indexFile, trav>>

\* self.store.save_root_pointer(...) and the return value.
SaveRootPointer ==
    /\ build.pc = "save"
    /\ build.next > Len(build.nodes)
    /\ LET root == build.nodes[build.root]
       IN /\ rootPtr' = <<[root_id |-> root.id,
                           metadata |-> [file_path |-> build.file_path,
                                         chunk_size_words |-> cfg.chunk_size_words,
                                         max_children_per_node |->
                                             cfg.max_children_per_node,
                                         max_depth |-> cfg.max_depth,
                                         node_count |-> Len(build.nodes)]]>>
          /\ build' = [build EXCEPT
                         !.pc = "built",
                         !.result = <<[root_id |-> root.id,
                                       node_count |-> Len(build.nodes),
                                       chunk_count |-> Len(build.chunks)]>>]
    /\ UNCHANGED <<disk, torn, cache, maxCache, metrics>>
    /\ UNCHANGED <<serviceVars, threadVars, histVars, cfg, docsDir, indexFile, trav>>

(***************************************************************************)
(* PageIndexManager.build_index, on an index directory with no earlier     *)
(* index.json: no document is reused.                                      *)
(***************************************************************************)
\* _supported_files() is empty: FileNotFoundError.
BuildIndexFails ==
    /\ build.pc = "idle"
    /\ docsDir = <<>>
    /\ build' = [build EXCEPT !.pc = "failed"]
    /\ UNCHANGED <<serviceVars, storeVars, threadVars, histVars, cfg, docsDir, indexFile, trav>>

\* The first document of the for loop over documents.
BuildIndexStart ==
    /\ build.pc = "idle"
    /\ docsDir # <<>>
    /\ build' = [build EXCEPT !.pc = "doc", !.doc = 1, !.doc_root_ids = <<>>,
                              !.indexed_docs = <<>>]
    /\ UNCHANGED <<serviceVars, storeVars, threadVars, histVars, cfg, docsDir, indexFile, trav>>

\* The document's entry and root id are appended; the loop goes to the next
\* document, or ends.
DocumentIndexed ==
    /\ build.pc = "built"
    /\ LET hierarchical_result == build.result[1]
           doc_index == [doc_name |-> docsDir[build.doc].name,
                         hierarchical_root_id |-> hierarchical_result.root_id,
                         hierarchical_chunk_count |-> hierarchical_result.chunk_count]
       IN build' = [build EXCEPT
                      !.doc_root_ids = Append(@, hierarchical_result.root_id),
                      !.indexed_docs = Append(@, doc_index),
                      !.pc = IF build.doc < Len(docsDir) THEN "doc" ELSE "global",
                      !.doc = IF build.doc < Len(docsDir) THEN @ + 1 ELSE @]
    /\ UNCHANGED <<serviceVars, storeVars, threadVars, histVars, cfg, docsDir, indexFile, trav>>

GlobalRootId(doc_root_ids) ==
    "global-root-" \o StableHash(IF doc_root_ids # <<>> THEN Join(doc_root_ids, "|")
                                 ELSE "empty")

\* The global root with its children in sorted-descending (reversed) order.
GlobalRootNodeReversed(doc_root_ids) ==
    MakeNode(GlobalRootId(doc_root_ids), <<>>, 0, "Root", "Global document root",
             GlobalRootId(doc_root_ids), "index.json",
             [NoMetadata EXCEPT !.child_count = Len(doc_root_ids),
                                !.source = "global_hierarchical_root"],
             [k \in 1..Len(doc_root_ids) |-> doc_root_ids[Len(doc_root_ids) + 1 - k]])

\* _build_global_hierarchical_root: the node.
GlobalRootNode(doc_root_ids) ==
    MakeNode(GlobalRootId(doc_root_ids), <<>>, 0, "Root", "Global document root",
             GlobalRootId(doc_root_ids), "index.json",
             [NoMetadata EXCEPT !.child_count = Len(doc_root_ids),
                                !.source = "global_hierarchical_root"],
             doc_root_ids)

\* _build_global_hierarchical_root: self._lazy_store.save_node(node).
SaveGlobalRoot ==
    /\ build.pc = "global"
    /\ LET node == GlobalRootNode(build.doc_root_ids)
       IN /\ disk' = SavedTo(disk, node)
          /\ torn' = torn \ {PathFor(node.id, node.level)}
          /\ cache' = [cache EXCEPT !["manager"] = CachePut(@, node, maxCache)]
    /\ build' = [build EXCEPT !.pc = "globalptr"]
    /\ UNCHANGED <<rootPtr, maxCache, metrics>>
    /\ UNCHANGED <<serviceVars, threadVars, histVars, cfg, docsDir, indexFile, trav>>

\* _build_global_hierarchical_root: self._lazy_store.save_root_pointer(...).
SaveGlobalRootPointer ==
    /\ build.pc = "globalptr"
    /\ rootPtr' = <<[root_id |-> GlobalRootId(build.doc_root_ids),
                     metadata |-> [root_type |-> "global",
                                   doc_root_count |-> Len(build.doc_root_ids)]]>>
    /\ build' = [build EXCEPT !.pc = "payload"]
    /\ UNCHANGED <<disk, torn, cache, maxCache, metrics>>
    /\ UNCHANGED <<serviceVars, threadVars, histVars, cfg, docsDir, indexFile, trav>>

\* save_index(payload)
SaveIndex ==
    /\ build.pc = "payload"
    /\ indexFile' = <<[document_count |-> Len(build.indexed_docs),
                       documents |-> build.indexed_docs]>>
    /\ build' = [build EXCEPT !.pc = "done"]
    /\ UNCHANGED <<serviceVars, storeVars, threadVars, histVars, cfg, docsDir, trav>>

(***************************************************************************)
(* TraversalEngine                                                         *)
(***************************************************************************)
UpperCase == "ABCDEFGHIJKLMNOPQRSTUVWXYZ"

LowerCase == "abcdefghijklmnopqrstuvwxyz"

Digits == "0123456789"

Chars(text) == {SubSeq(text, i, i) : i \in 1..Len(text)}

UpperChars == Chars(UpperCase)

AlphaNumChars == UpperChars \cup Chars(LowerCase) \cup Chars(Digits)

LowerOf ==
    [ch \in UpperChars |->
        LET i == CHOOSE k \in 1..Len(UpperCase) : SubSeq(UpperCase, k, k) = ch
        IN SubSeq(LowerCase, i, i)]

LowerChar(ch) == IF ch \in UpperChars THEN LowerOf[ch] ELSE ch

\* str.lower()
RECURSIVE Lower(_)
Lower(text) ==
    IF text = "" THEN "" ELSE LowerChar(SubSeq(text, 1, 1)) \o Lower(Tail(text))

\* re.findall(r"[a-zA-Z0-9]+", text): the maximal runs of letters and digits.
RECURSIVE FindAll(_, _)
FindAll(text, run) ==
    IF text = "" THEN (IF run = "" THEN <<>> ELSE <<run>>)
    ELSE LET ch == SubSeq(text, 1, 1)
         IN IF ch \in AlphaNumChars
            THEN FindAll(Tail(text), run \o ch)
            ELSE (IF run = "" THEN <<>> ELSE <<run>>) \o FindAll(Tail(text), "")

\* _tokenize
Tokenize(text) == FindAll(Lower(text), "")

\* term in haystack, on strings.
Contains(term, haystack) ==
    \E i \in 1..(Len(haystack) - Len(term) + 1) :
        SubSeq(haystack, i, i + Len(term) - 1) = term

\* title_overlap * 1.5, in halves.
TitleWeight == 3

ScoreNodeUntitled(node, query_terms) ==
    LET haystack == Lower(node.title \o " " \o node.summary)
    IN 2 * Cardinality({term \in query_terms : Contains(term, haystack)})

\* _score_node, in halves: the code returns the float overlap + title_overlap * 1.5.
ScoreNode(node, query_terms) ==
    LET haystack == Lower(node.title \o " " \o node.summary)
        overlap == Cardinality({term \in query_terms : Contains(term, haystack)})
        title == Lower(node.title)
        title_overlap == Cardinality({term \in query_terms : Contains(term, title)})
    IN 2 * overlap + TitleWeight * title_overlap

\* One turn of the for loop over current_ids, on st = the cache, the counters and
\* the nodes loaded so far.
LoadedOne(st, node_id) ==
    LET got == LoadNode(st.cache, st.metrics, node_id)
    IN IF got.node = <<>>
       THEN [st EXCEPT !.cache = got.cache, !.metrics = got.metrics]
       ELSE [cache |-> got.cache, metrics |-> Bump(got.metrics, "nodes_evaluated"),
             loaded_nodes |-> Append(st.loaded_nodes, got.node[1])]

RECURSIVE LoadedAll(_, _)
LoadedAll(st, ids) ==
    IF ids = <<>> THEN st ELSE LoadedAll(LoadedOne(st, Head(ids)), Tail(ids))

\* A sort that is not stable: item goes ahead of the items of its score.
InsertByScoreUnstable(scored, item) ==
    LET ahead == Cardinality({i \in 1..Len(scored) : scored[i].score > item.score})
    IN SubSeq(scored, 1, ahead) \o <<item>> \o SubSeq(scored, ahead + 1, Len(scored))

\* sorted(..., key=score, reverse=True) keeps the order of equal scores: item goes
\* behind every item that scores at least as much.
InsertByScore(scored, item) ==
    LET ahead == Cardinality({i \in 1..Len(scored) : scored[i].score >= item.score})
    IN SubSeq(scored, 1, ahead) \o <<item>> \o SubSeq(scored, ahead + 1, Len(scored))

RECURSIVE SortedByScore(_, _)
SortedByScore(scored, items) ==
    IF items = <<>> THEN scored
    ELSE SortedByScore(InsertByScore(scored, Head(items)), Tail(items))

\* while current_ids and depth <= 6
DepthCeiling == 6

LoopGoesOnNoCeiling(current_ids, depth) == current_ids # <<>>

LoopGoesOn(current_ids, depth) == current_ids # <<>> /\ depth <= DepthCeiling

\* An entry of the trace; score is what _score_node returns for the node again.
TraceEntry(node, depth, score) ==
    [depth |-> depth, node_id |-> node.id, title |-> node.title, level |-> node.level,
     score |-> score]

Details(query, traversal, from_cache, from_disk, evaluated, depth, selected_nodes) ==
    [query |-> query, traversal |-> traversal, nodes_loaded_from_cache |-> from_cache,
     nodes_loaded_from_disk |-> from_disk, nodes_evaluated |-> evaluated,
     tree_depth |-> depth, selected_nodes |-> selected_nodes]

Max(a, b) == IF a > b THEN a ELSE b

\* traverse(query, top_k_per_level) up to the while loop.
TraverseStart(query, top_k_per_level) ==
    /\ trav.pc \in {"idle", "done"}
    /\ trav.runs < MaxTraversals
    /\ trav' =
         IF rootPtr = <<>>
         THEN [NoTraversal EXCEPT
                 !.pc = "done", !.runs = trav.runs + 1, !.query = query,
                 !.top_k = top_k_per_level,
                 !.result = <<Details(query, <<>>, 0, 0, 0, 0, <<>>)>>]
         ELSE [NoTraversal EXCEPT
                 !.pc = "loop", !.runs = trav.runs, !.query = query,
                 !.top_k = top_k_per_level,
                 !.query_terms = Range(Tokenize(query)),
                 !.current_ids = <<rootPtr[1].root_id>>,
                 !.cache_before = metrics.cache_hits,
                 !.disk_before = metrics.nodes_loaded_from_disk]
    /\ UNCHANGED <<serviceVars, storeVars, threadVars, histVars, buildVars>>

\* scored[:top_k_per_level], each node with its score.
KeptOf(loaded_nodes, query_terms, top_k_per_level) ==
    Prefix(SortedByScore(<<>>,
                         [i \in 1..Len(loaded_nodes) |->
                             [score |-> ScoreNode(loaded_nodes[i], query_terms),
                              node |-> loaded_nodes[i]]]),
           top_k_per_level)

\* The payloads traverse hands to traversal_events.publish (the source of the load
\* is left out of node_evaluated).
NodeEvent(event, node, depth) ==
    [round |-> depth,
     payload |-> [event |-> event, node_id |-> node.id, level |-> node.level,
                  title |-> node.title]]

AnswerGenerated(depth) == [round |-> depth, payload |-> [event |-> "answer_generated"]]

\* A round that publishes node_evaluated for the kept nodes only.
RoundEventsOfKept(loaded_nodes, scored, depth) ==
    [i \in 1..Len(scored) |-> NodeEvent("node_evaluated", scored[i].node, depth)]
        \o [i \in 1..Len(scored) |-> NodeEvent("node_selected", scored[i].node, depth)]

\* The publish calls of one round: node_evaluated for each node loaded, in the for
\* loop over current_ids, then node_selected for each node kept.
RoundEvents(loaded_nodes, scored, depth) ==
    [i \in 1..Len(loaded_nodes) |-> NodeEvent("node_evaluated", loaded_nodes[i], depth)]
        \o [i \in 1..Len(scored) |-> NodeEvent("node_selected", scored[i].node, depth)]

\* The locals after a round that loaded loaded_nodes and kept the nodes of scored.
AfterRound(t, loaded_nodes, scored, next_ids) ==
    LET depth == t.depth + 1
        seen == [t EXCEPT !.depth = depth, !.rounds = @ + 1,
                          !.evaluated = @ + Len(loaded_nodes),
                          !.frontiers = Append(@, Len(t.current_ids)),
                          !.loaded = loaded_nodes,
                          !.events = @ \o RoundEvents(loaded_nodes, scored, depth)]
    IN IF loaded_nodes = <<>>
       THEN [seen EXCEPT !.pc = "finish", !.kept = Append(@, 0)]
       ELSE [seen EXCEPT
               !.traversal = @ \o [i \in 1..Len(scored) |->
                                     TraceEntry(scored[i].node, depth, scored[i].score)],
               !.selected_nodes = @ \o [i \in 1..Len(scored) |-> scored[i].node],
               !.kept = Append(@, Len(scored)),
               !.current_ids = next_ids,
               !.pc = IF next_ids = <<>> THEN "finish" ELSE "loop"]

\* A loop that goes down from the first kept node only.
NextIdsOfFirst(scored) == IF scored = <<>> THEN <<>> ELSE scored[1].node.children_ids

NextIds(scored) == Concat([i \in 1..Len(scored) |-> scored[i].node.children_ids])

Ranked(t, loaded_nodes, scored) == AfterRound(t, loaded_nodes, scored, NextIds(scored))

\* One round of the while loop, st being the store after the for loop over
\* current_ids.
Rounded(st) ==
    /\ cache' = [cache EXCEPT !["engine"] = st.cache]
    /\ metrics' = st.metrics
    /\ trav' = Ranked(trav, st.loaded_nodes,
                      KeptOf(st.loaded_nodes, trav.query_terms, trav.top_k))

TraverseRound ==
    /\ trav.pc = "loop"
    /\ LoopGoesOn(trav.current_ids, trav.depth)
    /\ Rounded(LoadedAll([cache |-> cache["engine"], metrics |-> metrics,
                          loaded_nodes |-> <<>>], trav.current_ids))
    /\ UNCHANGED <<disk, torn, rootPtr, maxCache>>
    /\ UNCHANGED <<serviceVars, threadVars, histVars, buildVars>>

\* After the loop: the counters, and the details returned.
TraverseFinish ==
    /\ \/ trav.pc = "finish"
       \/ trav.pc = "loop" /\ ~LoopGoesOn(trav.current_ids, trav.depth)
    /\ metrics' = [metrics EXCEPT
                     !.max_tree_depth_seen = Max(@, trav.depth),
                     !.retrieval_count = @ + 1]
    /\ trav' = [trav EXCEPT
                  !.pc = "done", !.runs = @ + 1,
                  !.events = Append(@, AnswerGenerated(trav.depth)),
                  !.result = <<Details(trav.query, trav.traversal,
                                       Max(0, metrics.cache_hits - trav.cache_before),
                                       Max(0, metrics.nodes_loaded_from_disk
                                              - trav.disk_before),
                                       trav.evaluated, trav.depth,
                                       trav.selected_nodes)>>]
    /\ UNCHANGED <<disk, torn, rootPtr, cache, maxCache>>
    /\ UNCHANGED <<serviceVars, threadVars, histVars, buildVars>>

(***************************************************************************)
(* The service: PageIndexManager (app/index_manager.py), QueryEngine       *)
(* (app/query_engine.py) and the rebuild jobs of the API (app/api.py), run *)
(* by the worker threads of one process.  What a thread does while it      *)
(* holds _data_lock and touches only its locals is one step; a build       *)
(* indexes one document in a step.  The process may die at any moment and  *)
(* be started again on the same folders.                                   *)
(***************************************************************************)
MaxSvcDocs == 2
MaxSvcWords == 2
MaxClock == 1
MaxUploads == 1
MaxCrashes == 1
MaxBuilds == 2

\* The thread of the background tasks, and a thread of the executor that serves
\* the requests.
Workers == {"w1", "w2"}

Rebuilders == {"w1"}

Requesters == {"w2"}

Questions == {"Refund policy?"}

\* What the answering service may send back as message.content.
Answers == {"", "30 days"}

\* self._max_cache_size = 128
EngineMaxCacheSize == 128

\* The model cuts the size of the two caches of the engine to MaxEngineCache.
MaxEngineCache == 2

EngineCapacity ==
    IF EngineMaxCacheSize < MaxEngineCache THEN EngineMaxCacheSize ELSE MaxEngineCache

BuildPcs == {"docs", "save", "write"}

NoCall ==
    [pc |-> "idle", op |-> "", rebuild |-> FALSE, question |-> "", ndocs |-> 0,
     doc |-> 0, previous_docs |-> <<>>, previous_fingerprints |-> <<>>,
     indexed_docs |-> <<>>, current_fingerprints |-> <<>>, doc_root_ids |-> <<>>,
     payload |-> <<>>, latest |-> <<>>, key |-> <<>>, attempts |-> 0,
     before |-> <<>>, saved_ids |-> {}, unchanged |-> {}, unchanged_ids |-> {},
     during |-> FALSE, pre |-> <<>>, started |-> 0, current_epoch |-> <<>>,
     job_id |-> <<>>, exc |-> <<>>]

NoEvent ==
    [event |-> "", thread |-> "", op |-> "", error |-> "", key |-> <<>>,
     during |-> FALSE, pre |-> <<>>, observed |-> <<>>, hit_gen |-> 0, started |-> 0,
     attempts |-> 0, cache_before |-> <<>>, before |-> <<>>, payload |-> <<>>,
     replaced |-> <<>>, unchanged |-> {}, unchanged_ids |-> {}, saved_ids |-> {}]

\* Neither class has an instance, and no thread is in a call of one.
NoClassCall == [pc |-> "idle", got |-> <<>>]

NoClass == [instance |-> <<>>, objects |-> <<>>, call |-> [t \in Workers |-> NoClassCall]]

NoClasses == [manager |-> NoClass, engine |-> NoClass]

NoEngine ==
    [initialized |-> FALSE, index_data |-> <<>>, answer_cache |-> <<>>,
     retrieval_cache |-> <<>>]

LockAlwaysFree(lock) == TRUE

\* Lock.acquire(): a thread gets the lock when no thread holds it.
LockFree(lock) == lock = <<>>

\* The end of a with block, also when it is left by an exception.
Released(lock, t) == IF lock = <<t>> THEN <<>> ELSE lock

\* d[key] = value, on a dict.
DictSet(d, key, value) ==
    [k \in DOMAIN d \cup {key} |-> IF k = key THEN value ELSE d[k]]

\* The bytes of a text file: its lines.
FileText(stream) == Join(stream, "\n")

\* _compute_doc_fingerprint: the sha256 of the name, the size, the mtime and the
\* first MB of the file, taken to be free of collisions.
ComputeDocFingerprint(doc) ==
    [name |-> doc.name, st_size |-> Len(FileText(doc.stream)),
     st_mtime_ns |-> doc.st_mtime_ns, head |-> FileText(doc.stream)]

\* The file exists.
IndexFileExists == indexFile # <<>> \/ indexTorn

\* _load_previous_doc_maps: previous_docs and fingerprints, or two empty dicts when
\* there is no payload file or it cannot be parsed.
PreviousDocs ==
    IF indexFile = <<>> THEN <<>>
    ELSE LET documents == indexFile[1].documents
         IN [name \in {documents[i].doc_name : i \in 1..Len(documents)} |->
                documents[CHOOSE i \in 1..Len(documents) :
                              /\ documents[i].doc_name = name
                              /\ \A j \in (i + 1)..Len(documents) :
                                     documents[j].doc_name # name]]

PreviousFingerprints == IF indexFile = <<>> THEN <<>> ELSE indexFile[1].doc_fingerprints

ReusableNever(c, name, fingerprint) == FALSE

\* previous_fingerprint == fingerprint and file_path.name in previous_docs
Reusable(c, name, fingerprint) ==
    /\ name \in DOMAIN c.previous_fingerprints
    /\ c.previous_fingerprints[name] = fingerprint
    /\ name \in DOMAIN c.previous_docs

\* _build_hierarchical_index(file_path): build_from_stream by the manager's indexer,
\* the nodes as it saves them and what it returns.
HierarchicalIndex(doc) ==
    LET chunks == ChunkWords(doc.stream, cfg)
        tree == BuildTreeNodes(BuildLeafNodes(chunks, doc.name, cfg), doc.name, cfg)
    IN [nodes |-> [k \in 1..Len(tree.nodes) |-> Stamped(tree.nodes[k], cfg)],
        root_id |-> tree.nodes[tree.root].id,
        node_count |-> Len(tree.nodes),
        chunk_count |-> Len(chunks)]

\* save_node of each node in turn: the files.
RECURSIVE SavedAll(_, _)
SavedAll(d, nodes) ==
    IF nodes = <<>> THEN d ELSE SavedAll(SavedTo(d, Head(nodes)), Tail(nodes))

\* save_node of each node in turn: the cache of the store.
RECURSIVE CachedAll(_, _, _)
CachedAll(c, nodes, max) ==
    IF nodes = <<>> THEN c ELSE CachedAll(CachePut(c, Head(nodes), max), Tail(nodes), max)

PathsOf(nodes) == {PathFor(nodes[k].id, nodes[k].level) : k \in 1..Len(nodes)}

\* save_root_pointer at the end of build_from_stream.
DocumentRootPointer(doc, h) ==
    <<[root_id |-> h.root_id,
       metadata |-> [file_path |-> doc.name,
                     chunk_size_words |-> cfg.chunk_size_words,
                     max_children_per_node |-> cfg.max_children_per_node,
                     max_depth |-> cfg.max_depth,
                     node_count |-> h.node_count]]>>

\* What a thread sees of the folders and of the manager before its build.
Snapshot ==
    [index_data |-> index_data, indexFile |-> indexFile, indexTorn |-> indexTorn,
     rootPtr |-> rootPtr, disk |-> disk]

RebuildInProgress == \E u \in Workers : svc[u].pc \in BuildPcs /\ svc[u].rebuild

\* An exception leaves the call: the locks the thread holds are released.  The
\* exception of a rebuild job is caught by _rebuild_index_job.
Raises(t, event) ==
    /\ svc' = [svc EXCEPT ![t] = IF svc[t].op = "job"
                                 THEN [NoCall EXCEPT !.pc = "except", !.op = "job",
                                                     !.job_id = svc[t].job_id,
                                                     !.exc = <<event.error>>]
                                 ELSE NoCall]
    /\ data_lock' = Released(data_lock, t)
    /\ rebuild_lock' = Released(rebuild_lock, t)
    /\ last' = [event EXCEPT !.thread = t, !.op = svc[t].op]

frameJobs == <<threadVars, histVars, cfg, build, trav, maxCache, metrics, busVars, cli,
               classes>>

frameStore == <<frameJobs, upload_jobs>>

(***************************************************************************)
(* The calls a worker thread starts.                                       *)
(***************************************************************************)
\* A rebuild job that goes on to "with _rebuild_lock" and leaves its status queued.
StartedJobStaysQueued(jobs, job_id) == jobs

\* with _jobs_lock: _upload_jobs[job_id]["status"] = "running"
StartedJob(jobs, job_id) == [jobs EXCEPT ![job_id].status = "running"]

\* api._rebuild_index_job(job_id), the background task of an upload, up to
\* "with _rebuild_lock".
RebuildIndexJob(t, job_id) ==
    /\ svc[t].pc = "idle"
    /\ job_id \in DOMAIN upload_jobs
    /\ upload_jobs[job_id].status = "queued"
    /\ \A u \in Workers : svc[u].job_id # <<job_id>>
    /\ upload_jobs' = StartedJob(upload_jobs, job_id)
    /\ svc' = [svc EXCEPT ![t] = [NoCall EXCEPT !.pc = "rlock", !.op = "job",
                                                !.rebuild = TRUE,
                                                !.job_id = <<job_id>>]]
    /\ last' = NoEvent
    /\ UNCHANGED <<storeVars, frameJobs, docsDir, indexFile, uploads, clock, mgrVars>>
    /\ UNCHANGED <<rebuild_lock, engine, crashes, builds>>

\* with _rebuild_lock: manager.rebuild_index()
AcquireRebuildLock(t) ==
    /\ svc[t].pc = "rlock"
    /\ LockFree(rebuild_lock)
    /\ rebuild_lock' = <<t>>
    /\ svc' = [svc EXCEPT ![t].pc = "dlock"]
    /\ last' = NoEvent
    /\ UNCHANGED <<storeVars, frameStore, docsDir, indexFile, uploads, clock, mgrVars>>
    /\ UNCHANGED <<engine, crashes, builds>>

\* PageIndexManager.rebuild_index(), called directly.
RebuildIndex(t) ==
    /\ svc[t].pc = "idle"
    /\ svc' = [svc EXCEPT ![t] = [NoCall EXCEPT !.pc = "dlock", !.op = "rebuild",
                                                !.rebuild = TRUE]]
    /\ last' = NoEvent
    /\ UNCHANGED <<storeVars, frameStore, docsDir, indexFile, uploads, clock, mgrVars>>
    /\ UNCHANGED <<rebuild_lock, engine, crashes, builds>>

\* QueryEngine(): __init__ up to self.index_manager.get_or_create_index().
NewQueryEngine(t) ==
    /\ svc[t].pc = "idle"
    /\ ~engine.initialized
    /\ svc' = [svc EXCEPT ![t] = [NoCall EXCEPT !.pc = "dlock", !.op = "init"]]
    /\ last' = NoEvent
    /\ UNCHANGED <<storeVars, frameStore, docsDir, indexFile, uploads, clock, mgrVars>>
    /\ UNCHANGED <<rebuild_lock, engine, crashes, builds>>

\* query, get_retrieval_trace, get_index_structure: up to _refresh_index_if_stale's
\* call of get_or_create_index(rebuild=False).
CallEngine(t, op, question) ==
    /\ svc[t].pc = "idle"
    /\ engine.initialized
    /\ svc' = [svc EXCEPT ![t] = [NoCall EXCEPT !.pc = "dlock", !.op = op,
                                                !.question = question,
                                                !.during = RebuildInProgress,
                                                !.pre = index_data,
                                                !.started = builds]]
    /\ last' = NoEvent
    /\ UNCHANGED <<storeVars, frameStore, docsDir, indexFile, uploads, clock, mgrVars>>
    /\ UNCHANGED <<rebuild_lock, engine, crashes, builds>>

(***************************************************************************)
(* PageIndexManager.get_or_create_index, under _data_lock.                 *)
(***************************************************************************)
\* load_index(), of a file that exists: the payload, or RuntimeError.
LoadIndex(t) ==
    IF indexTorn
    THEN /\ Raises(t, [NoEvent EXCEPT !.event = "raised",
                                      !.error = "Index load failure"])
         /\ UNCHANGED <<index_data, index_file_mtime>>
    ELSE /\ index_data' = indexFile
         /\ index_file_mtime' = <<indexFileMtime>>
         /\ svc' = [svc EXCEPT ![t].pc = "returned", ![t].latest = indexFile]
         /\ last' = [NoEvent EXCEPT !.event = "read", !.thread = t, !.op = svc[t].op,
                                    !.during = svc[t].during, !.pre = svc[t].pre,
                                    !.observed = indexFile]
         /\ UNCHANGED <<data_lock, rebuild_lock>>

\* The snapshot is held and no rebuild is asked for: _reload_from_disk_if_changed,
\* then the snapshot is returned.
SnapshotReturned(t) ==
    /\ svc[t].pc = "dlock"
    /\ LockFree(data_lock)
    /\ index_data # <<>>
    /\ ~svc[t].rebuild
    /\ IF IndexFileExists /\ index_file_mtime # <<>>
          /\ indexFileMtime > index_file_mtime[1]
       THEN LoadIndex(t)
       ELSE /\ index_file_mtime' = IF IndexFileExists /\ index_file_mtime = <<>>
                                   THEN <<indexFileMtime>> ELSE index_file_mtime
            /\ svc' = [svc EXCEPT ![t].pc = "returned", ![t].latest = index_data]
            /\ last' = [NoEvent EXCEPT !.event = "read", !.thread = t,
                                       !.op = svc[t].op, !.during = svc[t].during,
                                       !.pre = svc[t].pre, !.observed = index_data]
            /\ UNCHANGED <<index_data, data_lock, rebuild_lock>>
    /\ UNCHANGED <<storeVars, frameStore, docsDir, indexFile, uploads, clock>>
    /\ UNCHANGED <<indexTorn, indexFileMtime, engine, crashes, builds>>

\* No snapshot is held, no rebuild is asked for, and the payload file exists.
IndexLoaded(t) ==
    /\ svc[t].pc = "dlock"
    /\ LockFree(data_lock)
    /\ index_data = <<>>
    /\ ~svc[t].rebuild
    /\ IndexFileExists
    /\ LoadIndex(t)
    /\ UNCHANGED <<storeVars, frameStore, docsDir, indexFile, uploads, clock>>
    /\ UNCHANGED <<indexTorn, indexFileMtime, engine, crashes, builds>>

\* A rebuild is asked for, or there is neither snapshot nor payload file: build_index
\* is entered, up to the for loop over the documents.
BuildIndexCalled(t) ==
    /\ svc[t].pc = "dlock"
    /\ LockFree(data_lock)
    /\ svc[t].rebuild \/ (index_data = <<>> /\ ~IndexFileExists)
    /\ builds < MaxBuilds
    /\ IF docsDir = <<>>
       THEN Raises(t, [NoEvent EXCEPT !.event = "raised",
                                      !.error = "No supported documents"])
       ELSE /\ data_lock' = <<t>>
            /\ svc' = [svc EXCEPT ![t].pc = "docs", ![t].ndocs = Len(docsDir),
                                  ![t].doc = 1,
                                  ![t].previous_docs = PreviousDocs,
                                  ![t].previous_fingerprints = PreviousFingerprints,
                                  ![t].before = <<Snapshot>>]
            /\ last' = NoEvent
            /\ UNCHANGED rebuild_lock
    /\ UNCHANGED <<storeVars, frameStore, docsDir, indexFile, uploads, clock>>
    /\ UNCHANGED <<indexTorn, indexFileMtime, index_data, index_file_mtime>>
    /\ UNCHANGED <<engine, crashes, builds>>

(***************************************************************************)
(* PageIndexManager.build_index: the loop over the documents.              *)
(***************************************************************************)
\* The document is reused as the previous payload has it.
Reused(t, c, doc, fingerprint, entry) ==
    /\ svc' = [svc EXCEPT
                 ![t].doc = c.doc + 1,
                 ![t].current_fingerprints = DictSet(@, doc.name, fingerprint),
                 ![t].indexed_docs = Append(@, entry),
                 ![t].doc_root_ids = Append(@, entry.hierarchical_root_id),
                 ![t].unchanged = @ \cup {[doc_name |-> doc.name,
                                           root_id |-> entry.hierarchical_root_id]},
                 ![t].unchanged_ids = @ \cup Range(Ids(HierarchicalIndex(doc).nodes))]
    /\ UNCHANGED <<storeVars>>

\* The document's tree is built and saved by build_from_stream, and the entry of the
\* document is made of what it returns.
Rebuilt(t, c, doc, fingerprint, h, unchanged) ==
    /\ disk' = SavedAll(disk, h.nodes)
    /\ torn' = torn \ PathsOf(h.nodes)
    /\ cache' = [cache EXCEPT !["manager"] = CachedAll(@, h.nodes, maxCache)]
    /\ rootPtr' = DocumentRootPointer(doc, h)
    /\ svc' = [svc EXCEPT
                 ![t].doc = c.doc + 1,
                 ![t].current_fingerprints = DictSet(@, doc.name, fingerprint),
                 ![t].indexed_docs =
                     Append(@, [doc_name |-> doc.name,
                                hierarchical_root_id |-> h.root_id,
                                hierarchical_chunk_count |-> h.chunk_count]),
                 ![t].doc_root_ids = Append(@, h.root_id),
                 ![t].saved_ids = @ \cup Range(Ids(h.nodes)),
                 ![t].unchanged =
                     IF unchanged
                     THEN @ \cup {[doc_name |-> doc.name,
                                   root_id |-> c.previous_docs[doc.name]
                                                   .hierarchical_root_id]}
                     ELSE @,
                 ![t].unchanged_ids =
                     IF unchanged THEN @ \cup Range(Ids(h.nodes)) ELSE @]
    /\ UNCHANGED <<maxCache, metrics>>

\* The fingerprint is the one of the previous build and the previous entry has a
\* hierarchical_root_id.
Unchanged(c, doc, fingerprint) ==
    /\ doc.name \in DOMAIN c.previous_fingerprints
    /\ c.previous_fingerprints[doc.name] = fingerprint
    /\ doc.name \in DOMAIN c.previous_docs
    /\ c.previous_docs[doc.name].hierarchical_root_id # ""

\* One turn of the loop that ends with the document's entry appended.
Indexed(t, c, doc, fingerprint) ==
    IF /\ Reusable(c, doc.name, fingerprint)
       /\ c.previous_docs[doc.name].hierarchical_root_id # ""
    THEN Reused(t, c, doc, fingerprint, c.previous_docs[doc.name])
    ELSE Rebuilt(t, c, doc, fingerprint, HierarchicalIndex(doc),
                 Unchanged(c, doc, fingerprint))

IndexDocument(t) ==
    /\ svc[t].pc = "docs"
    /\ svc[t].doc <= svc[t].ndocs
    /\ Indexed(t, svc[t], docsDir[svc[t].doc], ComputeDocFingerprint(docsDir[svc[t].doc]))
    /\ last' = NoEvent
    /\ UNCHANGED <<frameStore, docsDir, indexFile, uploads, clock, mgrVars>>
    /\ UNCHANGED <<rebuild_lock, engine, crashes, builds>>

\* What build_index has written to the payload file when the loop raises.
IndexFileOnErrorPartial(file, tn, c) ==
    [file |-> <<[built_at_epoch |-> 0, document_count |-> Len(c.indexed_docs),
                 documents |-> c.indexed_docs,
                 doc_fingerprints |-> c.current_fingerprints]>>, torn |-> FALSE]

\* except Exception: logger.exception(...); raise.  save_index is not reached.
IndexFileOnError(file, tn, c) == [file |-> file, torn |-> tn]

\* One turn of the loop that raises: the document's builder (the text is read, or
\* PageIndex is asked) fails before anything of the document is saved.
IndexDocumentFails(t) ==
    /\ svc[t].pc = "docs"
    /\ svc[t].doc <= svc[t].ndocs
    /\ LET doc == docsDir[svc[t].doc]
       IN ~(/\ Reusable(svc[t], doc.name, ComputeDocFingerprint(doc))
            /\ svc[t].previous_docs[doc.name].hierarchical_root_id # "")
    /\ LET after == IndexFileOnError(indexFile, indexTorn, svc[t])
       IN /\ indexFile' = after.file
          /\ indexTorn' = after.torn
    /\ Raises(t, [NoEvent EXCEPT !.event = "aborted", !.error = "document",
                                 !.before = svc[t].before])
    /\ UNCHANGED <<storeVars, frameStore, docsDir, uploads, clock>>
    /\ UNCHANGED <<indexFileMtime, index_data, index_file_mtime>>
    /\ UNCHANGED <<engine, crashes, builds>>

\* After the loop: the payload, stamped int(time.time()), and
\* _build_global_hierarchical_root(doc_root_ids).  The clock shows now: the second
\* of the last reading, or a later one.
BuildGlobalHierarchicalRoot(t, now) ==
    /\ svc[t].pc = "docs"
    /\ svc[t].doc > svc[t].ndocs
    /\ now >= clock
    /\ clock' = now
    /\ LET c == svc[t]
           node == GlobalRootNode(c.doc_root_ids)
       IN /\ disk' = SavedTo(disk, node)
          /\ torn' = torn \ {PathFor(node.id, node.level)}
          /\ cache' = [cache EXCEPT !["manager"] = CachePut(@, node, maxCache)]
          /\ rootPtr' = <<[root_id |-> node.id,
                           metadata |-> [root_type |-> "global",
                                         doc_root_count |-> Len(c.doc_root_ids)]]>>
          /\ svc' = [svc EXCEPT
                       ![t].pc = "save",
                       ![t].saved_ids = @ \cup {node.id},
                       ![t].payload =
                           <<[built_at_epoch |-> now,
                              document_count |-> Len(c.indexed_docs),
                              documents |-> c.indexed_docs,
                              doc_fingerprints |-> c.current_fingerprints]>>]
    /\ last' = NoEvent
    /\ UNCHANGED <<maxCache, metrics>>
    /\ UNCHANGED <<frameStore, docsDir, indexFile, uploads, mgrVars>>
    /\ UNCHANGED <<rebuild_lock, engine, crashes, builds>>

\* save_index: write_text opens the payload file, which is then empty.
SaveIndexOpen(t) ==
    /\ svc[t].pc = "save"
    /\ indexFile' = <<>>
    /\ indexTorn' = TRUE
    /\ indexFileMtime' = indexFileMtime + 1
    /\ svc' = [svc EXCEPT ![t].pc = "write"]
    /\ last' = NoEvent
    /\ UNCHANGED <<storeVars, frameStore, docsDir, uploads, clock>>
    /\ UNCHANGED <<index_data, index_file_mtime, data_lock>>
    /\ UNCHANGED <<rebuild_lock, engine, crashes, builds>>

\* save_index: the payload is written and the file's mtime kept; build_index returns
\* and get_or_create_index keeps the payload as the snapshot and leaves the lock.
SaveIndexWrite(t) ==
    /\ svc[t].pc = "write"
    /\ indexFile' = svc[t].payload
    /\ indexTorn' = FALSE
    /\ index_file_mtime' = <<indexFileMtime>>
    /\ index_data' = svc[t].payload
    /\ data_lock' = Released(data_lock, t)
    /\ builds' = builds + 1
    /\ svc' = [svc EXCEPT ![t].pc = "returned", ![t].latest = svc[t].payload]
    /\ last' = [NoEvent EXCEPT !.event = "built", !.thread = t, !.op = svc[t].op,
                               !.payload = svc[t].payload,
                               !.replaced = svc[t].before[1].indexFile,
                               !.unchanged = svc[t].unchanged,
                               !.unchanged_ids = svc[t].unchanged_ids,
                               !.saved_ids = svc[t].saved_ids]
    /\ UNCHANGED <<storeVars, frameStore, docsDir, uploads, clock>>
    /\ UNCHANGED <<indexFileMtime, rebuild_lock, engine, crashes>>

(***************************************************************************)
(* What the caller does with the payload it got.                           *)
(***************************************************************************)
\* rebuild_index returns; the job leaves "with _rebuild_lock".
RebuildReturned(t) ==
    /\ svc[t].pc = "returned"
    /\ svc[t].op \in {"job", "rebuild"}
    /\ rebuild_lock' = Released(rebuild_lock, t)
    /\ svc' = [svc EXCEPT ![t] = IF svc[t].op = "job"
                                 THEN [NoCall EXCEPT !.pc = "rebuilt", !.op = "job",
                                                     !.job_id = svc[t].job_id]
                                 ELSE NoCall]
    /\ last' = NoEvent
    /\ UNCHANGED <<storeVars, frameStore, docsDir, indexFile, uploads, clock, mgrVars>>
    /\ UNCHANGED <<engine, crashes, builds>>

\* The end of _rebuild_index_job: with _jobs_lock, the status of the job and, in the
\* except block, its error.
EndedJob(jobs, c) ==
    IF c.pc = "rebuilt"
    THEN [jobs EXCEPT ![c.job_id[1]].status = "success"]
    ELSE [jobs EXCEPT ![c.job_id[1]].status = "failed", ![c.job_id[1]].error = c.exc]

JobEnds(t) ==
    /\ svc[t].pc \in {"rebuilt", "except"}
    /\ upload_jobs' = IF svc[t].job_id[1] \in DOMAIN upload_jobs
                      THEN EndedJob(upload_jobs, svc[t]) ELSE upload_jobs
    /\ svc' = [svc EXCEPT ![t] = NoCall]
    /\ last' = NoEvent
    /\ UNCHANGED <<storeVars, frameJobs, docsDir, indexFile, uploads, clock, mgrVars>>
    /\ UNCHANGED <<rebuild_lock, engine, crashes, builds>>

\* QueryEngine.__init__, after get_or_create_index(): the snapshot and the caches.
EngineInitialized(t) ==
    /\ svc[t].pc = "returned"
    /\ svc[t].op = "init"
    /\ engine' = [initialized |-> TRUE, index_data |-> svc[t].latest,
                  answer_cache |-> <<>>, retrieval_cache |-> <<>>]
    /\ svc' = [svc EXCEPT ![t] = NoCall]
    /\ last' = NoEvent
    /\ UNCHANGED <<storeVars, frameStore, docsDir, indexFile, uploads, clock, mgrVars>>
    /\ UNCHANGED <<rebuild_lock, crashes, builds>>

\* int(payload.get("built_at_epoch", 0))
EpochOf(data) == IF data = <<>> THEN 0 ELSE data[1].built_at_epoch

\* _refresh_index_if_stale, after get_or_create_index: the snapshot of the engine.
Refreshed(current, latest) ==
    IF EpochOf(latest) >= EpochOf(current) THEN latest ELSE current

\* _normalize_question
NormalizeQuestion(question) == Join(Tokenize(question), " ")

Normalized == [question \in Questions |-> NormalizeQuestion(question)]

\* _cache_key, of question.strip()
CacheKey(data, question) ==
    [question |-> IF question \in Questions THEN Normalized[question]
                  ELSE NormalizeQuestion(question),
     built_at |-> EpochOf(data)]

\* A _cache_get that leaves the entry where it is.
EngineCacheGetStays(c, key) == c

\* _cache_get, a hit: cache.move_to_end(key)
EngineCacheGet(c, key) == MoveToEnd(c, key)

\* _cache_set
EngineCacheSet(c, key, value) ==
    EvictOver(MoveToEnd(CacheSet(c, [id |-> key, value |-> value, gen |-> builds]), key),
              EngineCapacity)

CacheOf(op) == IF op = "query" THEN "answer_cache" ELSE "retrieval_cache"

\* The rest of _refresh_index_if_stale and, for query and get_retrieval_trace, the
\* cache key and the cache lookup; get_index_structure returns the snapshot.
Lookup(t, c, data, key, name) ==
    IF c.op = "structure"
    THEN /\ engine' = [engine EXCEPT !.index_data = data]
         /\ svc' = [svc EXCEPT ![t] = NoCall]
         /\ last' = [NoEvent EXCEPT !.event = "structure", !.thread = t, !.op = c.op,
                                    !.observed = data]
    ELSE IF InCache(engine[name], key)
    THEN /\ engine' = [engine EXCEPT !.index_data = data,
                                     ![name] = EngineCacheGet(@, key)]
         /\ svc' = [svc EXCEPT ![t] = NoCall]
         /\ last' = [NoEvent EXCEPT !.event = "hit", !.thread = t, !.op = c.op,
                                    !.key = <<key>>, !.started = c.started,
                                    !.hit_gen = CacheGet(engine[name], key).gen]
    ELSE /\ engine' = [engine EXCEPT !.index_data = data]
         /\ svc' = [svc EXCEPT ![t].pc = IF c.op = "query" THEN "service" ELSE "trace",
                               ![t].key = <<key>>]
         /\ last' = NoEvent

RefreshIndexIfStale(t) ==
    /\ svc[t].pc = "returned"
    /\ svc[t].op \in {"query", "trace", "structure"}
    /\ LET data == Refreshed(engine.index_data, svc[t].latest)
       IN Lookup(t, svc[t], data, CacheKey(data, svc[t].question), CacheOf(svc[t].op))
    /\ UNCHANGED <<storeVars, frameStore, docsDir, indexFile, uploads, clock, mgrVars>>
    /\ UNCHANGED <<rebuild_lock, crashes, builds>>

\* _refresh_index_if_stale holds no lock: when several threads of the executor are
\* in it, the reading of self.index_data and the assignment to it are two steps.
\* current_epoch = int(self.index_data.get("built_at_epoch", 0))
ReadCurrentEpoch(t) ==
    /\ svc[t].pc = "returned"
    /\ svc[t].op \in {"query", "trace", "structure"}
    /\ svc' = [svc EXCEPT ![t].pc = "compare",
                          ![t].current_epoch = <<EpochOf(engine.index_data)>>]
    /\ last' = NoEvent
    /\ UNCHANGED <<storeVars, frameStore, docsDir, indexFile, uploads, clock, mgrVars>>
    /\ UNCHANGED <<rebuild_lock, engine, crashes, builds>>

\* if latest_epoch >= current_epoch: self.index_data = latest, and what follows.
AssignIfLatest(t) ==
    /\ svc[t].pc = "compare"
    /\ LET data == IF EpochOf(svc[t].latest) >= svc[t].current_epoch[1]
                   THEN svc[t].latest ELSE engine.index_data
       IN Lookup(t, svc[t], data, CacheKey(data, svc[t].question), CacheOf(svc[t].op))
    /\ UNCHANGED <<storeVars, frameStore, docsDir, indexFile, uploads, clock, mgrVars>>
    /\ UNCHANGED <<rebuild_lock, crashes, builds>>

\* get_retrieval_trace after a miss: the traversal, the steps, _cache_set.
TraceBuilt(t) ==
    /\ svc[t].pc = "trace"
    /\ engine' = [engine EXCEPT
                    !.retrieval_cache =
                        EngineCacheSet(@, svc[t].key[1], [steps |-> "traversal"])]
    /\ svc' = [svc EXCEPT ![t] = NoCall]
    /\ last' = [NoEvent EXCEPT !.event = "traced", !.thread = t, !.op = "trace",
                               !.key = svc[t].key,
                               !.cache_before = engine.retrieval_cache]
    /\ UNCHANGED <<storeVars, frameStore, docsDir, indexFile, uploads, clock, mgrVars>>
    /\ UNCHANGED <<rebuild_lock, crashes, builds>>

\* query after a miss: the contexts, the prompt, and the answer of the service is
\* kept by _cache_set.
ServiceAnswers(t, content) ==
    /\ svc[t].pc = "service"
    /\ LET answer == IF content = ""
                     THEN "I could not generate an answer from the indexed documents."
                     ELSE content
       IN engine' = [engine EXCEPT
                       !.answer_cache =
                           EngineCacheSet(@, svc[t].key[1], [answer |-> answer])]
    /\ svc' = [svc EXCEPT ![t] = NoCall]
    /\ last' = [NoEvent EXCEPT !.event = "answered", !.thread = t, !.op = "query",
                               !.key = svc[t].key, !.attempts = svc[t].attempts + 1,
                               !.cache_before = engine.answer_cache]
    /\ UNCHANGED <<storeVars, frameStore, docsDir, indexFile, uploads, clock, mgrVars>>
    /\ UNCHANGED <<rebuild_lock, crashes, builds>>

QueryFailedRetries(c) ==
    IF c.attempts = 0
    THEN [c EXCEPT !.attempts = 1]
    ELSE [NoCall EXCEPT !.attempts = c.attempts + 1]

\* except Exception as exc: raise RuntimeError(...), after the one call of
\* self.client.chat.completions.create.
QueryFailed(c) == [NoCall EXCEPT !.attempts = c.attempts + 1]

\* query after a miss: the call of the service raises.
ServiceFails(t) ==
    /\ svc[t].pc = "service"
    /\ LET c == QueryFailed(svc[t])
       IN /\ svc' = [svc EXCEPT ![t] = [c EXCEPT !.attempts = IF c.pc = "idle" THEN 0
                                                               ELSE @]]
          /\ last' = IF c.pc = "idle"
                     THEN [NoEvent EXCEPT !.event = "raised", !.thread = t,
                                          !.op = "query",
                                          !.error = "Query execution failed",
                                          !.key = svc[t].key,
                                          !.attempts = c.attempts,
                                          !.cache_before = engine.answer_cache]
                     ELSE NoEvent
    /\ UNCHANGED <<storeVars, frameStore, docsDir, indexFile, uploads, clock, mgrVars>>
    /\ UNCHANGED <<rebuild_lock, engine, crashes, builds>>

(***************************************************************************)
(* What happens to the process from outside.                               *)
(***************************************************************************)
\* The entry upload_endpoint makes in _upload_jobs.
QueuedJob(filename) == [status |-> "queued", filename |-> filename, error |-> <<>>]

\* upload_endpoint: target.write_bytes(content), of a file that is new or not, the
\* job queued, and its background task added.  No more than most uploads are made.
Uploaded(d, n, most) ==
    /\ uploads < most
    /\ d <= Len(docsDir) + 1
    /\ uploads' = uploads + 1
    /\ docsDir' = [k \in 1..(IF d > Len(docsDir) THEN d ELSE Len(docsDir)) |->
                      IF k = d THEN [Doc(d, n) EXCEPT !.st_mtime_ns = uploads + 1]
                      ELSE docsDir[k]]
    /\ upload_jobs' = Append(upload_jobs, QueuedJob(DocName(d)))
    /\ last' = NoEvent
    /\ UNCHANGED <<storeVars, frameJobs, indexFile, clock, mgrVars>>
    /\ UNCHANGED <<apiVars, builds>>

Upload(d, n) == Uploaded(d, n, MaxUploads)

\* The process dies and is started again: the files stay, the memory is lost.
Crash ==
    /\ crashes < MaxCrashes
    /\ crashes' = crashes + 1
    /\ svc' = [t \in Workers |-> NoCall]
    /\ data_lock' = <<>>
    /\ rebuild_lock' = <<>>
    /\ index_data' = <<>>
    /\ index_file_mtime' = <<>>
    /\ engine' = NoEngine
    /\ cache' = [s \in Stores |-> <<>>]
    /\ metrics' = NoMetrics
    /\ upload_jobs' = <<>>
    /\ classes' = NoClasses
    /\ last' = NoEvent
    /\ UNCHANGED <<disk, torn, rootPtr, maxCache, threadVars, histVars, cfg, build, trav>>
    /\ UNCHANGED <<busVars, cli, docsDir, indexFile, uploads, clock, indexTorn>>
    /\ UNCHANGED <<indexFileMtime, builds>>

(***************************************************************************)
(* main.py, "Rebuild index": a process of its own, with a manager and a    *)
(* store of its own, on the folders the API process reads and writes.      *)
(***************************************************************************)
MaxCliRuns == 1

NoCli ==
    [pc |-> "idle", runs |-> 0, ndocs |-> 0, doc |-> 0, previous_docs |-> <<>>,
     previous_fingerprints |-> <<>>, indexed_docs |-> <<>>,
     current_fingerprints |-> <<>>, doc_root_ids |-> <<>>, payload |-> <<>>]

frameCli == <<cache, maxCache, metrics, threadVars, histVars, cfg, build, trav, busVars,
              upload_jobs, classes>>

\* rebuild_index(): get_instance().rebuild_index(), up to build_index's loop over the
\* documents; with no document the process ends with "No supported documents".
CliRebuildIndex ==
    /\ cli.pc = "idle"
    /\ cli.runs < MaxCliRuns
    /\ cli' = IF docsDir = <<>>
              THEN [NoCli EXCEPT !.runs = cli.runs + 1]
              ELSE [NoCli EXCEPT !.pc = "docs", !.runs = cli.runs + 1,
                                 !.ndocs = Len(docsDir), !.doc = 1,
                                 !.previous_docs = PreviousDocs,
                                 !.previous_fingerprints = PreviousFingerprints]
    /\ last' = NoEvent
    /\ UNCHANGED <<disk, torn, rootPtr, frameCli, docsDir, indexFile, docVars, mgrVars>>
    /\ UNCHANGED <<apiVars, builds>>

\* One turn of the loop, by the process's own manager: the files.
CliIndexed(c, doc, fingerprint, h) ==
    IF /\ Reusable(c, doc.name, fingerprint)
       /\ c.previous_docs[doc.name].hierarchical_root_id # ""
    THEN /\ cli' = [c EXCEPT !.doc = c.doc + 1,
                             !.current_fingerprints = DictSet(@, doc.name, fingerprint),
                             !.indexed_docs = Append(@, c.previous_docs[doc.name]),
                             !.doc_root_ids =
                                 Append(@, c.previous_docs[doc.name].hierarchical_root_id)]
         /\ UNCHANGED <<disk, torn, rootPtr>>
    ELSE /\ disk' = SavedAll(disk, h.nodes)
         /\ torn' = torn \ PathsOf(h.nodes)
         /\ rootPtr' = DocumentRootPointer(doc, h)
         /\ cli' = [c EXCEPT !.doc = c.doc + 1,
                             !.current_fingerprints = DictSet(@, doc.name, fingerprint),
                             !.indexed_docs =
                                 Append(@, [doc_name |-> doc.name,
                                            hierarchical_root_id |-> h.root_id,
                                            hierarchical_chunk_count |-> h.chunk_count]),
                             !.doc_root_ids = Append(@, h.root_id)]

CliIndexDocument ==
    /\ cli.pc = "docs"
    /\ cli.doc <= cli.ndocs
    /\ CliIndexed(cli, docsDir[cli.doc], ComputeDocFingerprint(docsDir[cli.doc]),
                  HierarchicalIndex(docsDir[cli.doc]))
    /\ last' = NoEvent
    /\ UNCHANGED <<frameCli, docsDir, indexFile, docVars, mgrVars, apiVars, builds>>

\* After the loop: the payload and _build_global_hierarchical_root(doc_root_ids).
CliBuildGlobalHierarchicalRoot(now) ==
    /\ cli.pc = "docs"
    /\ cli.doc > cli.ndocs
    /\ now >= clock
    /\ clock' = now
    /\ LET node == GlobalRootNode(cli.doc_root_ids)
       IN /\ disk' = SavedTo(disk, node)
          /\ torn' = torn \ {PathFor(node.id, node.level)}
          /\ rootPtr' = <<[root_id |-> node.id,
                           metadata |-> [root_type |-> "global",
                                         doc_root_count |-> Len(cli.doc_root_ids)]]>>
    /\ cli' = [cli EXCEPT !.pc = "save",
                          !.payload = <<[built_at_epoch |-> now,
                                         document_count |-> Len(cli.indexed_docs),
                                         documents |-> cli.indexed_docs,
                                         doc_fingerprints |-> cli.current_fingerprints]>>]
    /\ last' = NoEvent
    /\ UNCHANGED <<frameCli, docsDir, indexFile, uploads, mgrVars, apiVars, builds>>

\* save_index: write_text opens the payload file, which is then empty.
CliSaveIndexOpen ==
    /\ cli.pc = "save"
    /\ indexFile' = <<>>
    /\ indexTorn' = TRUE
    /\ indexFileMtime' = indexFileMtime + 1
    /\ cli' = [cli EXCEPT !.pc = "write"]
    /\ last' = NoEvent
    /\ UNCHANGED <<disk, torn, rootPtr, frameCli, docsDir, docVars>>
    /\ UNCHANGED <<index_data, index_file_mtime, data_lock, apiVars, builds>>

\* save_index: the payload is written; the process prints the count and ends.
CliSaveIndexWrite ==
    /\ cli.pc = "write"
    /\ indexFile' = cli.payload
    /\ indexTorn' = FALSE
    /\ cli' = [NoCli EXCEPT !.runs = cli.runs]
    /\ last' = NoEvent
    /\ UNCHANGED <<disk, torn, rootPtr, frameCli, docsDir, docVars>>
    /\ UNCHANGED <<indexFileMtime, index_data, index_file_mtime, data_lock, apiVars, builds>>

(***************************************************************************)
(* GET /index/node/{node_id} (app/api.py): a load on the store of the      *)
(* engine, by the thread of the event loop.                                *)
(***************************************************************************)
MaxNodeLoads == 2

\* index_node_endpoint: QueryEngine().traversal_engine.store.load_node(node_id)
IndexNodeEndpoint(node_id) ==
    /\ engine.initialized
    /\ ops[1] < MaxNodeLoads
    /\ ops' = <<ops[1] + 1, ops[2]>>
    /\ LET got == LoadNode(cache["engine"], metrics, node_id)
       IN /\ cache' = [cache EXCEPT !["engine"] = got.cache]
          /\ metrics' = got.metrics
    /\ UNCHANGED <<disk, torn, rootPtr, maxCache, th, histVars, buildVars, trav, serviceVars>>

(***************************************************************************)
(* TraversalEventBus (app/websocket/events.py).  The callbacks that        *)
(* publish schedules run on the event loop, one at a time and in the order *)
(* they were scheduled; so do the websocket handlers that read the queues. *)
(***************************************************************************)
MaxMailbox == 2
MaxSubscribers == 2
MaxEvents == 4

\* asyncio.Queue(maxsize=2000)
SubscriberQueueSize == 2000

\* The queue that subscribe makes; the model cuts its size to MaxMailbox.
NewQueue ==
    [maxsize |-> IF SubscriberQueueSize < MaxMailbox THEN SubscriberQueueSize
                 ELSE MaxMailbox,
     items |-> <<>>]

\* asyncio.Queue.full()
Full(q) == q.maxsize > 0 /\ Len(q.items) >= q.maxsize

\* put_nowait, of a queue that is not full
PutNowait(q, payload) == [q EXCEPT !.items = Append(@, payload)]

\* get_nowait, of a queue that is not empty
GetNowait(q) == [q EXCEPT !.items = Tail(@)]

PutNowaitSafeKeepsOldest(q, payload) == IF Full(q) THEN q ELSE PutNowait(q, payload)

\* _put_nowait_safe
PutNowaitSafe(q, payload) ==
    IF ~Full(q) THEN PutNowait(q, payload)
    ELSE LET room == IF q.items = <<>> THEN q ELSE GetNowait(q)
         IN IF Full(room) THEN room ELSE PutNowait(room, payload)

frameBus == <<storeVars, threadVars, histVars, buildVars, trav, docVars, mgrVars, cli,
              upload_jobs, classes>>

\* attach_loop, at the start of the API
AttachLoop ==
    /\ ~loop
    /\ loop' = TRUE
    /\ last' = NoEvent
    /\ UNCHANGED <<frameBus, apiVars, builds, subscribers, mailbox, callbacks, published>>

\* subscribe: a new queue, appended to _subscribers
Subscribe ==
    /\ Len(mailbox) < MaxSubscribers
    /\ mailbox' = Append(mailbox, NewQueue)
    /\ subscribers' = Append(subscribers, Len(mailbox) + 1)
    /\ last' = NoEvent
    /\ UNCHANGED <<frameBus, apiVars, builds, loop, callbacks, published>>

\* unsubscribe
Unsubscribe(queue) ==
    /\ queue \in Range(subscribers)
    /\ subscribers' = Without(subscribers, queue)
    /\ last' = NoEvent
    /\ UNCHANGED <<frameBus, apiVars, builds, loop, mailbox, callbacks, published>>

\* The calls that publish schedules, one for each subscriber.
Scheduled(queues, payload) == [k \in 1..Len(queues) |-> [queue |-> queues[k],
                                                         payload |-> payload]]

\* publish, of the next event
Publish ==
    /\ published < MaxEvents
    /\ published' = published + 1
    /\ callbacks' = IF loop /\ subscribers # <<>>
                    THEN callbacks \o Scheduled(subscribers, published + 1)
                    ELSE callbacks
    /\ last' = NoEvent
    /\ UNCHANGED <<frameBus, apiVars, builds, loop, subscribers, mailbox>>

\* The loop runs the call scheduled first: _put_nowait_safe(queue, payload).
Deliver ==
    /\ callbacks # <<>>
    /\ LET call == Head(callbacks)
       IN /\ mailbox' = [mailbox EXCEPT
                           ![call.queue] = PutNowaitSafe(@, call.payload)]
          /\ last' = [NoEvent EXCEPT !.event = "delivered",
                                     !.before = <<mailbox[call.queue]>>,
                                     !.key = <<call.queue>>,
                                     !.payload = <<call.payload>>]
    /\ callbacks' = Tail(callbacks)
    /\ UNCHANGED <<frameBus, apiVars, builds, loop, subscribers, published>>

\* traversal_websocket_endpoint: event = await queue.get(), of a queue that holds one
Consume(queue) ==
    /\ queue \in 1..Len(mailbox)
    /\ mailbox[queue].items # <<>>
    /\ mailbox' = [mailbox EXCEPT ![queue] = GetNowait(@)]
    /\ last' = NoEvent
    /\ UNCHANGED <<frameBus, apiVars, builds, loop, subscribers, callbacks, published>>

(***************************************************************************)
(* One document built by an indexer of any configuration.                  *)
(***************************************************************************)
IdleStoreInit ==
    /\ torn = {}
    /\ cache = [s \in Stores |-> <<>>]
    /\ metrics = NoMetrics
    /\ th = [t \in Threads |-> Idle]
    /\ ops = <<0, 0>>
    /\ ret = NoRet
    /\ touched = <<>>
    /\ lastEvict = [out |-> {}, lru |-> {}]
    /\ saved = [x \in NodeIds |-> <<>>]
    /\ everSaved = {}
    /\ admitted = [s \in Stores |-> {}]
    /\ seqOnly = TRUE
    /\ uploads = 0
    /\ clock = 0
    /\ indexTorn = FALSE
    /\ indexFileMtime = 0
    /\ index_data = <<>>
    /\ index_file_mtime = <<>>
    /\ data_lock = <<>>
    /\ rebuild_lock = <<>>
    /\ svc = [t \in Workers |-> NoCall]
    /\ engine = NoEngine
    /\ crashes = 0
    /\ builds = 0
    /\ last = NoEvent
    /\ loop = FALSE
    /\ subscribers = <<>>
    /\ mailbox = <<>>
    /\ callbacks = <<>>
    /\ published = 0
    /\ cli = NoCli
    /\ upload_jobs = <<>>
    /\ classes = NoClasses

BuildInit ==
    /\ IdleStoreInit
    /\ disk = <<>>
    /\ rootPtr = <<>>
    /\ maxCache \in 1..MaxCacheSize
    /\ cfg \in Cfgs
    /\ docsDir \in DocDirs(1)
    /\ build = [NoBuild EXCEPT !.pc = "doc", !.doc = 1]
    /\ indexFile = <<>>
    /\ trav = NoTraversal

BuildNext == BuildTree \/ SaveTreeNode \/ SaveRootPointer

SpecBuild == BuildInit /\ [][BuildNext]_vars

(***************************************************************************)
(* The manager builds the index of a documents folder, with the indexer    *)
(* and the stores as it constructs them; the index is then traversed.      *)
(***************************************************************************)
\* LazyNodeStore(root_dir, max_cache_size=5000)
DefaultMaxCacheSize == 5000

\* The folders of the model: up to MaxDocs documents of the same length, or two
\* documents of any lengths.
DocsDirs ==
    {[d \in 1..count |-> Doc(d, n)] : count \in 0..MaxDocs, n \in 0..MaxWords}
        \cup DocDirs(2)

Queries == {"What is the refund policy?", "refund 30 days"}

IndexInit ==
    /\ IdleStoreInit
    /\ disk = <<>>
    /\ rootPtr = <<>>
    /\ maxCache = DefaultMaxCacheSize
    /\ cfg = DefaultCfg
    /\ docsDir \in DocsDirs
    /\ build = NoBuild
    /\ indexFile = <<>>
    /\ trav = NoTraversal

IndexNext ==
    \/ BuildIndexFails
    \/ BuildIndexStart
    \/ BuildTree
    \/ SaveTreeNode
    \/ SaveRootPointer
    \/ DocumentIndexed
    \/ SaveGlobalRoot
    \/ SaveGlobalRootPointer
    \/ SaveIndex
    \/ /\ build.pc \in {"done", "failed"}
       /\ \E query \in Queries, top_k_per_level \in 1..MaxTopK :
              TraverseStart(query, top_k_per_level)
    \/ TraverseRound
    \/ TraverseFinish

SpecIndex == IndexInit /\ [][IndexNext]_vars

(***************************************************************************)
(* A traversal of any files the hierarchical folder may hold.              *)
(***************************************************************************)
GraphTitles == {"Refund Policy", "Fees"}

GraphSummaries == {"terms", "refund within 30 days"}

GraphNode(node_id, level, title, summary, children_ids) ==
    MakeNode(node_id, <<>>, level, title, summary, node_id, "d1.txt",
             [NoMetadata EXCEPT !.child_count = Len(children_ids)], children_ids)

\* For each id, the files it may have: none, or one.
GraphChoices(node_id) ==
    CASE node_id = "n1" ->
           {<<>>} \cup {<<GraphNode("n1", 0, "Root", "Global document root", kids)>> :
                          kids \in {<<"n2", "n3">>, <<"n1">>, <<"n9", "n2">>}}
      [] node_id = "n2" ->
           {<<>>} \cup {<<GraphNode("n2", 1, title, summary, kids)>> :
                          title \in GraphTitles, summary \in GraphSummaries,
                          kids \in {<<>>, <<"n1">>}}
      [] OTHER ->
           {<<>>} \cup {<<GraphNode("n3", 1, title, summary, kids)>> :
                          title \in GraphTitles, summary \in GraphSummaries,
                          kids \in {<<>>, <<"n3", "n2">>}}

DiskOf(nodes) ==
    [path \in {PathFor(n.id, n.level) : n \in nodes} |->
        CHOOSE n \in nodes : PathFor(n.id, n.level) = path]

Graphs ==
    {DiskOf(Range(a \o b \o c)) :
        a \in GraphChoices("n1"), b \in GraphChoices("n2"), c \in GraphChoices("n3")}

TraverseInit ==
    /\ IdleStoreInit
    /\ disk \in Graphs
    /\ rootPtr \in {<<>>, <<[root_id |-> "n1",
                             metadata |-> [root_type |-> "global", doc_root_count |-> 2]]>>}
    /\ maxCache = DefaultMaxCacheSize
    /\ cfg = DefaultCfg
    /\ docsDir = <<>>
    /\ build = NoBuild
    /\ indexFile = <<>>
    /\ trav = NoTraversal

TraverseNext ==
    \/ \E query \in Queries, top_k_per_level \in 1..MaxTopK :
           TraverseStart(query, top_k_per_level)
    \/ TraverseRound
    \/ TraverseFinish

SpecTraverse == TraverseInit /\ [][TraverseNext]_vars

(***************************************************************************)
(* The store under concurrent callers.                                     *)
(***************************************************************************)
StoreInit ==
    /\ IdleStoreInit
    /\ disk = <<>>
    /\ rootPtr = <<>>
    /\ maxCache \in 1..MaxCacheSize
    /\ cfg = DefaultCfg
    /\ docsDir = <<>>
    /\ build = NoBuild
    /\ indexFile = <<>>
    /\ trav = NoTraversal

StoreNext ==
    \E t \in Threads :
        \/ \E node \in StoreNodes : SaveOpen(t, "manager", node)
        \/ SaveWrite(t)
        \/ SaveCache(t)
        \/ \E l \in Loads : LoadCheck(t, "manager", l[1], l[2])
        \/ LoadScan(t)
        \/ LoadPut(t)

SpecStore == StoreInit /\ [][StoreNext]_vars

(***************************************************************************)
(* The service on a documents folder, from its first start.                *)
(***************************************************************************)
SvcDocsDirs == {[d \in 1..count |-> Doc(d, d)] : count \in {0, MaxSvcDocs}}

ServiceInit ==
    /\ IdleStoreInit
    /\ disk = <<>>
    /\ rootPtr = <<>>
    /\ maxCache = DefaultMaxCacheSize
    /\ cfg = DefaultCfg
    /\ docsDir \in SvcDocsDirs
    /\ build = NoBuild
    /\ indexFile = <<>>
    /\ trav = NoTraversal

\* The steps of a call of the manager or of the engine.
CallStep(t) ==
    \/ SnapshotReturned(t)
    \/ BuildIndexCalled(t)
    \/ IndexDocument(t)
    \/ IndexDocumentFails(t)
    \/ \E now \in 0..MaxClock : BuildGlobalHierarchicalRoot(t, now)
    \/ SaveIndexOpen(t)
    \/ SaveIndexWrite(t)
    \/ RebuildReturned(t)
    \/ EngineInitialized(t)
    \/ RefreshIndexIfStale(t)
    \/ TraceBuilt(t)
    \/ \E content \in Answers : ServiceAnswers(t, content)
    \/ ServiceFails(t)

WorkerStep(t) ==
    \/ AcquireRebuildLock(t)
    \/ JobEnds(t)
    \/ CallStep(t)

EngineCall ==
    \E t \in Requesters :
        \/ NewQueryEngine(t)
        \/ \E question \in Questions : CallEngine(t, "query", question)
        \/ \E question \in Questions : CallEngine(t, "trace", question)
        \/ CallEngine(t, "structure", "")

WorkerCall ==
    \/ \E t \in Rebuilders :
           \/ \E job_id \in DOMAIN upload_jobs : RebuildIndexJob(t, job_id)
           \/ RebuildIndex(t)
    \/ EngineCall

ServiceNext ==
    \/ WorkerCall
    \/ \E t \in Workers : WorkerStep(t)
    \/ Upload(1, MaxSvcWords)

SpecService == ServiceInit /\ [][ServiceNext]_vars

(***************************************************************************)
(* The service over the deaths and restarts of its process, on a folder    *)
(* whose documents stay as they are.                                       *)
(***************************************************************************)
RestartNext ==
    \/ \E t \in Rebuilders : RebuildIndex(t)
    \/ EngineCall
    \/ \E t \in Workers : CallStep(t) \/ IndexLoaded(t)
    \/ Crash

SpecRestart == ServiceInit /\ [][RestartNext]_vars

(***************************************************************************)
(* The event bus, its subscribers and the publishers of events.            *)
(***************************************************************************)
EventsInit ==
    /\ IdleStoreInit
    /\ disk = <<>>
    /\ rootPtr = <<>>
    /\ maxCache = DefaultMaxCacheSize
    /\ cfg = DefaultCfg
    /\ docsDir = <<>>
    /\ build = NoBuild
    /\ indexFile = <<>>
    /\ trav = NoTraversal

EventsNext ==
    \/ AttachLoop
    \/ Subscribe
    \/ \E queue \in 1..MaxSubscribers : Unsubscribe(queue)
    \/ Publish
    \/ Deliver
    \/ \E queue \in 1..MaxSubscribers : Consume(queue)

SpecEvents == EventsInit /\ [][EventsNext]_vars

(***************************************************************************)
(* The persisted tree, as a reader walks it.                               *)
(***************************************************************************)
\* The record a load_node(node_id) with no hint reads from the files: <<>> when no
\* file of that id exists.
Stored(node_id) ==
    LET found == FirstExisting(disk, torn, node_id, LevelKeys)
    IN IF found = <<>> \/ found[1] \in torn THEN <<>> ELSE <<disk[found[1]]>>

\* The ids of the leaf chunks met by following children_ids down from node_id, in
\* the order met, each as often as it is met.
RECURSIVE LeafChunksUnder(_, _)
LeafChunksUnder(node_id, fuel) ==
    LET node == Stored(node_id)
    IN IF node = <<>> \/ fuel = 0 THEN <<>>
       ELSE IF node[1].children_ids = <<>>
       THEN IF node[1].metadata.chunk_index >= 0 THEN <<node_id>> ELSE <<>>
       ELSE Concat([k \in 1..Len(node[1].children_ids) |->
                       LeafChunksUnder(node[1].children_ids[k], fuel - 1)])

\* The ids of the leaf nodes made from the chunks of the document being built.
ChunkNodeIds == {build.nodes[k].id : k \in 1..Len(build.chunks)}

\* C1: when build_from_stream has returned, the leaf chunks reached from the
\* returned root through children_ids are pairwise distinct and are exactly the
\* chunks that chunking produced: none is an orphan, none is reached twice.
LeavesCoverChunks ==
    build.pc = "built" =>
        LET leaves == LeafChunksUnder(build.result[1].root_id, DefaultMaxDepth + 2)
        IN NoDuplicates(leaves) /\ Range(leaves) = ChunkNodeIds

\* C2: when build_index has returned, every id in the children_ids of a persisted
\* node names a persisted node whose level is the parent's level + 1.
ChildrenOneLevelDown ==
    build.pc = "done" =>
        \A path \in DOMAIN disk :
            \A k \in 1..Len(disk[path].children_ids) :
                LET child == Stored(disk[path].children_ids[k])
                IN child # <<>> /\ child[1].level = disk[path].level + 1

\* C3: whatever the interleaving of save_node and load_node calls, the cache of a
\* store of capacity C holds at most C entries.
CacheWithinCapacity == \A s \in Stores : Len(cache[s]) <= maxCache

\* An admission to a full cache, made by calls that overlapped.
EvictionUnderOverlap ==
    /\ ~seqOnly
    /\ lastEvict.out # {}
    /\ Len(cache["manager"]) = maxCache

\* C4: the ids an admission evicts are the least recently touched ids of the
\* cache, a touch being a save_node, a cache-hit load_node or the promotion of a
\* disk-hit load_node.
EvictsLeastRecentlyTouched == lastEvict.out = lastEvict.lru

\* An eviction from a cache of two or more whose oldest entry is not the least
\* recently touched one by insertion alone: a cache hit came in between.
EvictionAfterHit ==
    /\ lastEvict.out # {}
    /\ maxCache >= 2
    /\ metrics.cache_hits > 0

\* C5: a load_node(id) issued right after save_node of a node of that id returned
\* gives back the saved record, from the cache.
LoadAfterSaveIsCacheHit ==
    (ret.kind = "load" /\ ret.iss.afterSave # <<>>)
        => (ret.prov = "cache" /\ ret.res = ret.iss.afterSave)

LoadAfterSaveHappens ==
    /\ ret.kind = "load"
    /\ ret.iss.afterSave # <<>>
    /\ ret.prov = "cache"
    /\ Len(cache["manager"]) = maxCache

\* C6: when no two calls ever overlapped, a load_node of an id that was saved and
\* has been evicted, issued with no hint or with the saved record's level as
\* hint, returns the record last saved under the id with provenance "disk" and
\* leaves it cached; and the load_node of the same id right after a disk hit
\* reports "cache".
EvictedLoadsFromDisk ==
    /\ (/\ ret.kind = "load"
        /\ seqOnly
        /\ ret.iss.wasEvicted
        /\ ret.iss.savedAtStart # <<>>
        /\ ret.hint \in {<<>>, <<ret.iss.savedAtStart[1].level>>})
            => (/\ ret.prov = "disk"
                /\ ret.res = ret.iss.savedAtStart
                /\ InCache(cache["manager"], ret.id))
    /\ (ret.kind = "load" /\ seqOnly /\ ret.iss.afterPromote) => ret.prov = "cache"

\* C7: load_node of an id no save_node was ever called with returns no node with
\* provenance "miss" and does not change the cache; "miss" comes without a node
\* and every other provenance comes with one.
MissOnlyWithoutNode ==
    ret.kind = "load" =>
        /\ ret.iss.neverSaved => (ret.res = <<>> /\ ret.prov = "miss" /\ ~ret.changed)
        /\ ret.prov = "miss" => ret.res = <<>>
        /\ ret.prov \in {"cache", "disk"} => ret.res # <<>>

\* The steps a traversal under way may still take: two for each round left, the
\* finish counted apart.
StepsLeft ==
    2 * (7 - trav.rounds) + (CASE trav.pc = "loop" -> 2 [] trav.pc = "finish" -> 1
                               [] OTHER -> 0)

\* C8: traverse runs at most 7 rounds of its loop and then returns, whatever files
\* the folder holds, children_ids that form cycles or name missing nodes included:
\* every step of a traversal under way leaves fewer steps to its return, of which
\* there are at most 7 rounds and the finish.
TraverseTerminates ==
    [][trav.pc \in {"loop", "finish"} =>
          /\ trav'.rounds <= 7
          /\ StepsLeft' < StepsLeft
          /\ StepsLeft' >= 0]_vars

\* A traversal of a graph with a cycle has run into the ceiling and returned.
CeilingReached == trav.pc = "done" /\ trav.rounds = 7 /\ trav.current_ids # <<>>

\* C9: in a traversal of a built index no frontier after the first holds more than
\* top_k_per_level * max_children_per_node ids, or more than max_children_per_node
\* ids for each node kept the round before, so that the nodes evaluated stay within
\* rounds * max_children_per_node * top_k_per_level.
FrontierBounded ==
    build.pc = "done" =>
        /\ \A r \in 2..Len(trav.frontiers) :
              /\ trav.frontiers[r] <= trav.top_k * cfg.max_children_per_node
              /\ trav.frontiers[r] <= trav.kept[r - 1] * cfg.max_children_per_node
        /\ trav.evaluated <= trav.rounds * cfg.max_children_per_node * trav.top_k

\* The query tokens found in the text, as _score_node looks for them.
Found(text) == {term \in trav.query_terms : Contains(term, Lower(text))}

TitleMatch(node) == Found(node.title) # {}

SummaryOnlyMatch(node) == Found(node.title) = {} /\ Found(node.summary) # {}

Matched(node) == Cardinality(Found(node.title) \cup Found(node.summary))

\* The entries the last round added to the trace.
LastTrace == SelectSeq(trav.traversal, LAMBDA entry : entry.depth = trav.depth)

\* Wherever the last round's trace has b, it has a before it.
RankedBefore(a, b) ==
    \A j \in 1..Len(LastTrace) :
        LastTrace[j].node_id = b.id =>
            \E i \in 1..(j - 1) : LastTrace[i].node_id = a.id

JustRanked == trav.pc \in {"loop", "finish"} /\ trav.rounds > 0

\* The statement of C10 as the specification has it: a title match always beats a
\* summary-only match.
TitleAlwaysOutranksSummary ==
    JustRanked =>
        \A i \in 1..Len(trav.loaded) :
            TitleMatch(trav.loaded[i]) =>
                \A j \in 1..Len(trav.loaded) :
                    SummaryOnlyMatch(trav.loaded[j]) =>
                        /\ ScoreNode(trav.loaded[i], trav.query_terms)
                               > ScoreNode(trav.loaded[j], trav.query_terms)
                        /\ RankedBefore(trav.loaded[i], trav.loaded[j])

\* C10: a node A of the frontier that matches a query token in its title scores
\* strictly higher than a node B of the frontier that matches query tokens in its
\* summary only, and stands before B in the trace wherever B is kept, provided B
\* matches no more query tokens than A.
TitleOutranksSummary ==
    JustRanked =>
        \A i \in 1..Len(trav.loaded) :
            TitleMatch(trav.loaded[i]) =>
                \A j \in 1..Len(trav.loaded) :
                    (/\ SummaryOnlyMatch(trav.loaded[j])
                     /\ Matched(trav.loaded[j]) <= Matched(trav.loaded[i])) =>
                        /\ ScoreNode(trav.loaded[i], trav.query_terms)
                               > ScoreNode(trav.loaded[j], trav.query_terms)
                        /\ RankedBefore(trav.loaded[i], trav.loaded[j])

\* A frontier that lists the summary-only node first, both nodes kept, the titled
\* node first in the trace.
TitledNodeOvertakes ==
    /\ JustRanked
    /\ Len(trav.loaded) = 2
    /\ Len(LastTrace) = 2
    /\ SummaryOnlyMatch(trav.loaded[1])
    /\ TitleMatch(trav.loaded[2])
    /\ Matched(trav.loaded[1]) <= Matched(trav.loaded[2])
    /\ LastTrace[1].node_id = trav.loaded[2].id
    /\ LastTrace[2].node_id = trav.loaded[1].id

(***************************************************************************)
(* The builds of the manager                                               *)
(***************************************************************************)
\* C11: when a build ends, every document whose fingerprint was the one of the
\* previous payload and whose previous entry had a hierarchical_root_id has that
\* same hierarchical_root_id in the new payload, and the build called save_node for
\* no node of that document's tree.
UnchangedDocumentIsReused ==
    last.event = "built" =>
        /\ \A u \in last.unchanged :
               \E i \in 1..Len(last.payload[1].documents) :
                   /\ last.payload[1].documents[i].doc_name = u.doc_name
                   /\ last.payload[1].documents[i].hierarchical_root_id = u.root_id
        /\ last.unchanged_ids \cap last.saved_ids = {}

\* A build has ended that reused one document and rebuilt another.
ReusedBesideRebuilt ==
    /\ last.event = "built"
    /\ last.unchanged # {}
    /\ Cardinality(last.saved_ids) > 1

\* C12: when a document fails during build_index the call ends by the exception
\* (a rebuild job is then in its handler, any other caller is done), the payload
\* file is what it was before the build, and so is _index_data.
FailedBuildWritesNoPayload ==
    last.event = "aborted" =>
        /\ svc[last.thread].pc = (IF svc[last.thread].op = "job" THEN "except" ELSE "idle")
        /\ data_lock # <<last.thread>>
        /\ indexFile = last.before[1].indexFile
        /\ indexTorn = last.before[1].indexTorn
        /\ index_data = last.before[1].index_data

\* A rebuild was aborted at a document while the manager holds the snapshot, and
\* the folder the payload file, of an earlier build.
RebuildAborted ==
    /\ last.event = "aborted"
    /\ index_data # <<>>
    /\ indexFile # <<>>

\* C13: when a document fails during build_index, the root pointer and the node
\* files are what they were before the build.
FailedBuildCommitsNothing ==
    last.event = "aborted" =>
        /\ rootPtr = last.before[1].rootPtr
        /\ disk = last.before[1].disk

\* C14: the built_at_epoch of a payload that a build writes is strictly greater than
\* the built_at_epoch of the payload it replaces.
EpochStrictlyIncreases ==
    (last.event = "built" /\ last.replaced # <<>>) =>
        last.payload[1].built_at_epoch > last.replaced[1].built_at_epoch

(***************************************************************************)
(* The caches of the query engine                                          *)
(***************************************************************************)
\* C15: a query or get_retrieval_trace call that starts after a rebuild has
\* completed is never served an entry that was cached before that rebuild
\* completed.
NoStaleCacheHit == last.event = "hit" => last.hit_gen >= last.started

ReaderSeesPreRebuildSnapshot ==
    (last.event = "read" /\ last.during) => last.observed = last.pre

(***************************************************************************)
(* The mailboxes of the event bus                                          *)
(***************************************************************************)
Sorted(items) == \A i, j \in 1..Len(items) : i < j => items[i] < items[j]

\* C18: a mailbox never holds more events than its capacity, which is at most 2,000;
\* its events are in their order of publication; and a delivery leaves the events
\* that were queued, without the oldest one when the mailbox was full, followed by
\* the event delivered.
MailboxDropsOldest ==
    /\ \A queue \in 1..Len(mailbox) :
           /\ Len(mailbox[queue].items) <= mailbox[queue].maxsize
           /\ mailbox[queue].maxsize <= SubscriberQueueSize
           /\ Sorted(mailbox[queue].items)
    /\ last.event = "delivered" =>
           LET was == last.before[1]
           IN mailbox[last.key[1]].items =
                  (IF Len(was.items) >= was.maxsize THEN Tail(was.items) ELSE was.items)
                      \o last.payload

\* An event was delivered to a mailbox that was full.
DeliveredToFullMailbox ==
    /\ last.event = "delivered"
    /\ Len(last.before[1].items) = last.before[1].maxsize

(***************************************************************************)
(* Failures                                                                *)
(***************************************************************************)
\* C19: no call of get_or_create_index ends by the error of load_index, that is,
\* a payload file that cannot be parsed makes no index operation fail.
CorruptIndexNeverFails == ~(last.event = "raised" /\ last.error = "Index load failure")

\* C20: when the call of the answering service fails, query ends by the runtime
\* error after one call of the service, and the answer cache is what it was.
ServiceFailureIsNotCached ==
    last.error = "Query execution failed" =>
        /\ last.event = "raised"
        /\ svc[last.thread].pc = "idle"
        /\ last.attempts = 1
        /\ engine.answer_cache = last.cache_before

\* A query has failed and the answer cache holds nothing under its key: the next
\* query of the same question calls the service.
ServiceFailedOnMiss ==
    /\ last.error = "Query execution failed"
    /\ ~InCache(engine.answer_cache, last.key[1])

(***************************************************************************)
(* The root pointer                                                        *)
(***************************************************************************)
\* The root pointer file names the root of the global tree.
GlobalRootPointer ==
    /\ rootPtr # <<>>
    /\ "root_type" \in DOMAIN rootPtr[1].metadata
    /\ rootPtr[1].metadata.root_type = "global"

\* C21: once a build has completed, the root pointer that a traversal reads is the
\* one of the global tree, whatever builds of document trees have run since.
RootPointerStaysGlobal == builds >= 1 => GlobalRootPointer

\* The hierarchical_root_id values of a payload's documents, in payload order.
DocumentRootIds(payload) ==
    [i \in 1..Len(payload.documents) |-> payload.documents[i].hierarchical_root_id]

\* The persisted nodes that _build_global_hierarchical_root made.
GlobalRootNodes ==
    {disk[path] : path \in {p \in DOMAIN disk :
                               disk[p].metadata.source = "global_hierarchical_root"}}

\* C22: when a build ends, the root pointer names a persisted global root whose
\* children_ids are the hierarchical_root_id values of the payload's documents in
\* payload order, as many as document_count; and the global roots persisted for
\* the same list of document roots are one node, of one id.
GlobalRootListsDocumentRoots ==
    last.event = "built" =>
        /\ GlobalRootPointer
        /\ LET root == Stored(rootPtr[1].root_id)
           IN /\ root # <<>>
              /\ root[1].children_ids = DocumentRootIds(last.payload[1])
              /\ Len(root[1].children_ids) = last.payload[1].document_count
        /\ \A a, b \in GlobalRootNodes : a.children_ids = b.children_ids => a.id = b.id

\* A rebuild of two documents has ended with the document roots that the payload
\* it replaces had.
RebuiltOverSameRoots ==
    /\ last.event = "built"
    /\ last.replaced # <<>>
    /\ last.payload[1].document_count = 2
    /\ DocumentRootIds(last.payload[1]) = DocumentRootIds(last.replaced[1])

(***************************************************************************)
(* The shape of a document tree                                            *)
(***************************************************************************)
\* The node of the tree being built that has the id.
BuiltNode(node_id) == build.nodes[CHOOSE k \in 1..Len(build.nodes) : build.nodes[k].id = node_id]

\* The edges on the longest path down from the node to a node without children.
RECURSIVE Height(_)
Height(node) ==
    IF node.children_ids = <<>> THEN 0
    ELSE LET below == {Height(BuiltNode(node.children_ids[k])) :
                          k \in 1..Len(node.children_ids)}
         IN 1 + CHOOSE h \in below : \A g \in below : g <= h

\* The least h from low on with fanout^h >= count, power being fanout^low.
RECURSIVE LeastPower(_, _, _, _)
LeastPower(fanout, count, low, power) ==
    IF power >= count THEN low ELSE LeastPower(fanout, count, low + 1, power * fanout)

\* C23: when build_from_stream has returned for a stream of c chunks, the height of
\* the tree under the returned root is the least h with max_children_per_node^h >= c,
\* or max_depth when that is less; and for 2 <= c <= max_children_per_node the tree
\* is c + 1 nodes, the root at level 0 with the c leaves as children in chunk order.
HeightIsLogOfChunks ==
    build.pc = "built" =>
        LET c == Len(build.chunks)
            h == LeastPower(cfg.max_children_per_node, c, 0, 1)
            root == build.nodes[build.root]
        IN /\ build.result[1].root_id = root.id
           /\ Height(root) = (IF h < cfg.max_depth THEN h ELSE cfg.max_depth)
           /\ (2 <= c /\ c <= cfg.max_children_per_node) =>
                  /\ Len(build.nodes) = c + 1
                  /\ root.level = 0
                  /\ Len(root.children_ids) = c
                  /\ \A k \in 1..c :
                         /\ BuiltNode(root.children_ids[k]).metadata.chunk_index = k - 1
                         /\ BuiltNode(root.children_ids[k]).children_ids = <<>>

\* A document of three chunks was built by an indexer of fanout three: one pass.
ThreeChunksOnePass ==
    /\ build.pc = "built"
    /\ Len(build.chunks) = 3
    /\ cfg.max_children_per_node = 3
    /\ Len(build.nodes) = 4

\* A document was built whose chunks took two passes to group under one root.
TwoPassesNeeded ==
    /\ build.pc = "built"
    /\ Len(build.chunks) > cfg.max_children_per_node
    /\ cfg.max_depth = 2
    /\ Height(build.nodes[build.root]) = 2

(***************************************************************************)
(* The API process reads the payload while main.py's "Rebuild index" runs  *)
(* beside it.                                                              *)
(***************************************************************************)
ReloadNext ==
    \/ \E t \in Requesters :
           \/ NewQueryEngine(t)
           \/ CallEngine(t, "structure", "")
           \/ SnapshotReturned(t)
           \/ IndexLoaded(t)
           \/ BuildIndexCalled(t)
           \/ IndexDocument(t)
           \/ \E now \in 0..MaxClock : BuildGlobalHierarchicalRoot(t, now)
           \/ SaveIndexOpen(t)
           \/ SaveIndexWrite(t)
           \/ EngineInitialized(t)
           \/ RefreshIndexIfStale(t)
    \/ CliRebuildIndex
    \/ CliIndexDocument
    \/ \E now \in 0..MaxClock : CliBuildGlobalHierarchicalRoot(now)
    \/ CliSaveIndexOpen
    \/ CliSaveIndexWrite
    \/ Upload(1, MaxSvcWords)

SpecReload == ServiceInit /\ [][ReloadNext]_vars

\* The payload file is newer than the manager has seen it.
FileIsNewer ==
    IndexFileExists /\ index_file_mtime # <<>> /\ indexFileMtime > index_file_mtime[1]

\* get_or_create_index(rebuild=False) is about to run with a snapshot held.
ReadsWithSnapshot(t) ==
    svc[t].pc = "dlock" /\ ~svc[t].rebuild /\ index_data # <<>> /\ LockFree(data_lock)

\* C24: a get_or_create_index(rebuild=False) with a snapshot held returns the payload
\* read from disk and records the file's modification time when the file is newer
\* than the manager has seen it, and returns the held snapshot unchanged when not.
ReloadsWhenNewer ==
    [][\A t \in Requesters :
           ReadsWithSnapshot(t) /\ svc'[t] # svc[t] =>
               IF FileIsNewer
               THEN /\ svc'[t].pc = "returned"
                    /\ indexFile # <<>>
                    /\ svc'[t].latest = indexFile
                    /\ index_data' = indexFile
                    /\ index_file_mtime' = <<indexFileMtime>>
               ELSE /\ svc'[t].pc = "returned"
                    /\ svc'[t].latest = index_data
                    /\ index_data' = index_data]_vars

\* The file was newer and whole: the payload of the other process was returned.
ReloadedFromDisk ==
    /\ last.event = "read"
    /\ cli.runs = 1 /\ cli.pc = "idle"
    /\ builds = 1
    /\ last.observed = indexFile /\ index_data = indexFile
    /\ index_file_mtime = <<2>>

(***************************************************************************)
(* What a load returns of an id saved more than once.                      *)
(***************************************************************************)
\* C26: when no two calls ever overlapped, a load_node of a saved id with no level
\* hint returns the record most recently saved under the id, from the cache or from
\* disk, also when the id was saved at different levels over time.
LoadReturnsLastSaved ==
    (/\ ret.kind = "load"
     /\ seqOnly
     /\ ret.hint = <<>>
     /\ ret.iss.savedAtStart # <<>>)
        => ret.res = ret.iss.savedAtStart

(***************************************************************************)
(* One document built, uploaded again with another text, and built again   *)
(* by the same indexer on the same store.                                  *)
(***************************************************************************)
\* upload_endpoint writes the document anew; the next build_index calls
\* build_from_stream on it.
DocumentUploadedAgain(n) ==
    /\ build.pc = "built"
    /\ uploads < MaxUploads
    /\ uploads' = uploads + 1
    /\ docsDir' = <<[Doc(1, n) EXCEPT !.st_mtime_ns = uploads + 1]>>
    /\ build' = [NoBuild EXCEPT !.pc = "doc", !.doc = 1]
    /\ UNCHANGED <<storeVars, threadVars, histVars, cfg, indexFile, trav>>
    /\ UNCHANGED <<clock, mgrVars, apiVars, auditVars, busVars, cli, upload_jobs, classes>>

RebuildNext ==
    \/ BuildTree
    \/ SaveTreeNode
    \/ SaveRootPointer
    \/ \E n \in 0..MaxWords : DocumentUploadedAgain(n)

SpecRebuild == BuildInit /\ [][RebuildNext]_vars

\* The record is the old one, but for a parent_id that was null.
SameButParent(old, new) ==
    /\ [new EXCEPT !.parent_id = old.parent_id] = old
    /\ new.parent_id = old.parent_id \/ old.parent_id = <<>>

\* C25: every save_node of an id that has been persisted writes the record that was
\* persisted, except possibly for a parent_id that goes from null to the parent's id.
PersistedNodesImmutable ==
    [][\A q \in DOMAIN disk' :
           (q \notin DOMAIN disk \/ disk'[q] # disk[q]) =>
               \A p \in DOMAIN disk :
                   disk[p].id = disk'[q].id => SameButParent(disk[p], disk'[q])]_vars

(***************************************************************************)
(* The service with its engine at work: a long document is indexed at the  *)
(* first use, uploaded again one word longer and indexed again by a        *)
(* rebuild job, while the engine traverses and serves single nodes.        *)
(***************************************************************************)
\* The words of the long document: its one chunk is longer than the 80 characters
\* its id is made of.
LongDocWords == 16

\* _select_contexts_from_hierarchical_tree, get_retrieval_trace:
\* traverse(question, top_k_per_level=2)
EngineTopKPerLevel == 2

StoredIds == {disk[p].id : p \in DOMAIN disk}

RetrievalInit ==
    /\ IdleStoreInit
    /\ disk = <<>>
    /\ rootPtr = <<>>
    /\ maxCache = DefaultMaxCacheSize
    /\ cfg = DefaultCfg
    /\ docsDir = <<Doc(1, LongDocWords)>>
    /\ build = NoBuild
    /\ indexFile = <<>>
    /\ trav = NoTraversal

RetrievalNext ==
    \/ \E t \in Requesters : NewQueryEngine(t) \/ EngineInitialized(t)
    \/ \E t \in Rebuilders :
           \/ \E job_id \in DOMAIN upload_jobs : RebuildIndexJob(t, job_id)
           \/ AcquireRebuildLock(t)
           \/ RebuildReturned(t)
           \/ JobEnds(t)
    \/ \E t \in Workers :
           \/ SnapshotReturned(t)
           \/ BuildIndexCalled(t)
           \/ IndexDocument(t)
           \/ \E now \in 0..MaxClock : BuildGlobalHierarchicalRoot(t, now)
           \/ SaveIndexOpen(t)
           \/ SaveIndexWrite(t)
    \/ Upload(1, LongDocWords + 1)
    \/ engine.initialized /\ TraverseStart("refund 30 days", EngineTopKPerLevel)
    \/ TraverseRound
    \/ TraverseFinish
    \/ \E node_id \in StoredIds : IndexNodeEndpoint(node_id)

SpecRetrieval == RetrievalInit /\ [][RetrievalNext]_vars

\* A build has completed and none is running.
RebuildCompleted == builds >= 1 /\ \A u \in Workers : svc[u].pc \notin BuildPcs

\* C27: once a rebuild has completed and none is running, every node a round of a
\* traversal loads through the engine's store is the record the builder saved last
\* under its id (in this folder every id is saved at one level: the record of its
\* file).
TraversalLoadsLatestNodes ==
    [][(trav'.rounds = trav.rounds + 1 /\ RebuildCompleted) =>
           \A i \in 1..Len(trav'.loaded) :
               Stored(trav'.loaded[i].id) = <<trav'.loaded[i]>>]_vars

\* C30: the cache-hit and disk-hit counts a traversal returns sum to its
\* nodes_evaluated, whatever other loads ran on other threads meanwhile.
CountsOnlyOwnLoads ==
    trav.pc = "done" /\ trav.result # <<>> =>
        trav.result[1].nodes_loaded_from_cache + trav.result[1].nodes_loaded_from_disk
            = trav.result[1].nodes_evaluated

(***************************************************************************)
(* The index of one deep document: an indexer of chunk size 1 and fanout 2 *)
(* with the default max_depth, on a folder that is empty or holds one      *)
(* document of a few chunks or of more than 2^5 chunks; the index is then  *)
(* traversed and the contexts of the prompt are selected.                  *)
(***************************************************************************)
MinDeepWords == 5
MaxDeepWords == 33

\* BalancedHierarchicalIndexer(store, chunk_size_words=1, max_children_per_node=2)
DeepCfg ==
    [chunk_size_words |-> 1, max_children_per_node |-> 2, max_depth |-> DefaultMaxDepth]

\* The deep document: n short words, one a line.
DeepCorpus == <<"30", "a", "b", "c">>

DeepDoc(d, n) ==
    [name |-> DocName(d),
     stream |-> [k \in 1..n |-> DeepCorpus[((k - 1) % Len(DeepCorpus)) + 1]],
     st_mtime_ns |-> 0]

DeepDocsDirs ==
    {[d \in 1..count |-> DeepDoc(d, n)] : count \in 0..1, n \in {MinDeepWords, MaxDeepWords}}

DeepInit ==
    /\ IdleStoreInit
    /\ disk = <<>>
    /\ rootPtr = <<>>
    /\ maxCache = DefaultMaxCacheSize
    /\ cfg = DeepCfg
    /\ docsDir \in DeepDocsDirs
    /\ build = NoBuild
    /\ indexFile = <<>>
    /\ trav = NoTraversal

SpecDeep == DeepInit /\ [][IndexNext]_vars

\* The nodes the last round kept.
LastKept ==
    SubSeq(trav.selected_nodes,
           Len(trav.selected_nodes) - trav.kept[Len(trav.kept)] + 1,
           Len(trav.selected_nodes))

IsLeafChunk(node) == node.metadata.chunk_index >= 0

\* C28: the traversal of an index a successful build with the default max_depth
\* produced stops because its frontier became empty after it kept leaf chunks, never
\* because the ceiling of rounds was hit first.
TraversalEndsAtLeaves ==
    (build.pc = "done" /\ trav.pc = "done" /\ trav.selected_nodes # <<>>) =>
        /\ trav.current_ids = <<>>
        /\ \A i \in 1..Len(LastKept) : IsLeafChunk(LastKept[i])

(***************************************************************************)
(* QueryEngine._select_contexts_from_hierarchical_tree                     *)
(***************************************************************************)
\* top_k: int = 6
ContextsTopK == 6

\* summary[:2000]
ContextMaxChars == 2000

RECURSIVE LStrip(_)
LStrip(text) ==
    IF text = "" THEN "" ELSE IF Head(text) \in WhiteSpace THEN LStrip(Tail(text)) ELSE text

RECURSIVE RStrip(_)
RStrip(text) ==
    IF text = "" THEN ""
    ELSE IF SubSeq(text, Len(text), Len(text)) \in WhiteSpace
         THEN RStrip(SubSeq(text, 1, Len(text) - 1))
         ELSE text

\* str.strip()
Strip(text) == RStrip(LStrip(text))

\* text if text else summary, of one node.
ContextSummary(node) ==
    IF Strip(node.metadata.text) # "" THEN Strip(node.metadata.text)
    ELSE Strip(node.summary)

\* The context appended for one node.
ContextOf(node) ==
    [doc_name |-> node.file_path, title |-> node.title,
     summary |-> Prefix(ContextSummary(node), ContextMaxChars)]

\* The for loop over trace.selected_nodes.
RECURSIVE ContextsLoop(_, _, _)
ContextsLoop(nodes, contexts, top_k) ==
    IF nodes = <<>> THEN contexts
    ELSE IF ContextSummary(Head(nodes)) = ""
    THEN ContextsLoop(Tail(nodes), contexts, top_k)
    ELSE IF Len(contexts) + 1 >= top_k
    THEN Append(contexts, ContextOf(Head(nodes)))
    ELSE ContextsLoop(Tail(nodes), Append(contexts, ContextOf(Head(nodes))), top_k)

\* The contexts of the prompt, of what traverse(question, top_k_per_level=2) returned.
SelectContextsFromHierarchicalTree(trace, top_k) ==
    ContextsLoop(trace.selected_nodes, <<>>, top_k)

\* The contexts that carry the raw text of a leaf chunk among nodes.
LeafContexts(nodes) ==
    {ContextOf(nodes[i]) : i \in {k \in 1..Len(nodes) : IsLeafChunk(nodes[k])}}

\* C29: when the nodes a traversal kept include a leaf chunk, the contexts selected
\* for the prompt include the raw text of a leaf chunk.
ContextsIncludeKeptLeaf ==
    (/\ trav.pc = "done"
     /\ trav.top_k = EngineTopKPerLevel
     /\ LeafContexts(trav.result[1].selected_nodes) # {})
        => \E c \in Range(SelectContextsFromHierarchicalTree(trav.result[1], ContextsTopK)) :
               c \in LeafContexts(trav.result[1].selected_nodes)

(***************************************************************************)
(* The root pointer of a finished build_from_stream, as a reader finds it. *)
(***************************************************************************)
\* Every node met by following children_ids down from ids can be loaded.
RECURSIVE AllLoadable(_, _)
AllLoadable(ids, fuel) ==
    \A i \in 1..Len(ids) :
        LET node == Stored(ids[i])
        IN /\ node # <<>>
           /\ fuel > 0 => AllLoadable(node[1].children_ids, fuel - 1)

\* The root pointer on disk is the one the build that has just ended wrote.
PointerOfThisBuild ==
    /\ build.pc = "built"
    /\ build.result # <<>>
    /\ rootPtr # <<>>
    /\ rootPtr[1].root_id = build.result[1].root_id
    /\ rootPtr[1].metadata.node_count = build.result[1].node_count

\* C31: the root pointer is written only once every node of the tree is saved: when a
\* reader finds the root pointer a build wrote, every node reachable from its root_id
\* through children_ids can be loaded, and no save of a node of that build is pending.
PointerWrittenLast ==
    /\ uploads = 0 /\ build.pc = "save" => rootPtr = <<>>
    /\ PointerOfThisBuild =>
          /\ build.next > Len(build.nodes)
          /\ AllLoadable(<<rootPtr[1].root_id>>, DepthCeiling)

\* A document built a second time into a tree of three nodes or more, its pointer
\* written.
PointerFoundAfterRebuild ==
    /\ PointerOfThisBuild
    /\ uploads >= 1
    /\ Len(build.nodes) >= 3
    /\ AllLoadable(<<rootPtr[1].root_id>>, DepthCeiling)

(***************************************************************************)
(* parent_id in the tree one build_from_stream has persisted.              *)
(***************************************************************************)
\* The persisted records whose children_ids holds node_id.
ParentsOf(node_id) ==
    {p \in DOMAIN disk : \E i \in 1..Len(disk[p].children_ids) :
                            disk[p].children_ids[i] = node_id}

\* C32: in the persisted tree of a document every node but the root has the parent_id
\* of the one node whose children_ids holds it, and the root alone has a null
\* parent_id.
ParentIdsNameParents ==
    build.pc = "built" =>
        \A p \in DOMAIN disk :
            IF disk[p].id = rootPtr[1].root_id
            THEN disk[p].parent_id = <<>>
            ELSE /\ disk[p].parent_id # <<>>
                 /\ \E q \in ParentsOf(disk[p].id) :
                       /\ ParentsOf(disk[p].id) = {q}
                       /\ disk[p].parent_id = <<disk[q].id>>

(***************************************************************************)
(* _chunk_words on the n words of a document, chunk_size_words = s.        *)
(***************************************************************************)
CeilDiv(n, s) == (n + s - 1) \div s

\* The words of the document the build is on, and the words of each of its chunks.
BuildWords == WordsFromStream(docsDir[build.doc].stream)

ChunkWordLists == [i \in 1..Len(build.chunks) |-> Split(build.chunks[i])]

\* C36: n words and chunk_size_words = s >= 1 give ceil(n/s) chunks, every chunk but
\* the last of s words, the last of 1..s words, the chunks joined in order being the
\* words; no word gives no chunk and one childless placeholder root at level 0.
ChunksPartitionWords ==
    build.pc \in {"save", "built"} =>
        LET n == Len(BuildWords)
            s == cfg.chunk_size_words
            k == Len(build.chunks)
        IN /\ k = CeilDiv(n, s)
           /\ \A i \in 1..(k - 1) : Len(ChunkWordLists[i]) = s
           /\ k > 0 => Len(ChunkWordLists[k]) \in 1..s
           /\ Concat(ChunkWordLists) = BuildWords
           /\ n = 0 =>
                 /\ build.chunks = <<>>
                 /\ Len(build.nodes) = 1
                 /\ build.root = 1
                 /\ build.nodes[1].children_ids = <<>>
                 /\ build.nodes[1].level = 0
                 /\ build.nodes[1].id = "root-" \o StableHash(build.file_path)

\* Three words cut by twos: a full chunk and a last chunk of one word.
LastChunkShort ==
    /\ build.pc = "built"
    /\ Len(BuildWords) = 3
    /\ cfg.chunk_size_words = 2
    /\ Len(build.chunks) = 2
    /\ Len(ChunkWordLists[2]) = 1

(***************************************************************************)
(* The nodes a round keeps, among the nodes it loaded.                     *)
(***************************************************************************)
Min(a, b) == IF a < b THEN a ELSE b

LoadedScore(i) == ScoreNode(trav.loaded[i], trav.query_terms)

\* The place of the i-th loaded node among the loaded nodes: behind every node that
\* scores more, and behind the nodes of its score that the frontier lists earlier.
PlaceOf(i) ==
    1 + Cardinality({j \in 1..Len(trav.loaded) :
                        \/ LoadedScore(j) > LoadedScore(i)
                        \/ LoadedScore(j) = LoadedScore(i) /\ j < i})

\* The nodes the last round added to selected_nodes.
LastSelected ==
    SubSeq(trav.selected_nodes, Len(trav.selected_nodes) - Len(LastTrace) + 1,
           Len(trav.selected_nodes))

\* C33: a round keeps the min(top_k_per_level, number of loaded nodes) loaded nodes
\* of the highest scores, in descending order of score, nodes of equal score in the
\* order of the frontier; the trace and selected_nodes list them in that order.
KeptAreTopKStable ==
    JustRanked =>
        /\ Len(LastTrace) = Min(trav.top_k, Len(trav.loaded))
        /\ Len(trav.selected_nodes) = Len(trav.traversal)
        /\ \A i \in 1..Len(trav.loaded) :
              PlaceOf(i) <= trav.top_k =>
                  /\ LastSelected[PlaceOf(i)] = trav.loaded[i]
                  /\ LastTrace[PlaceOf(i)] =
                         TraceEntry(trav.loaded[i], trav.depth, LoadedScore(i))
        /\ \A r \in 1..(Len(LastTrace) - 1) : LastTrace[r].score >= LastTrace[r + 1].score

\* Two nodes of one score loaded, one kept: the one the frontier lists first.
TieKeepsFirstMet ==
    /\ JustRanked
    /\ Len(trav.loaded) = 2
    /\ trav.loaded[1] # trav.loaded[2]
    /\ LoadedScore(1) = LoadedScore(2)
    /\ LoadedScore(1) > 0
    /\ trav.top_k = 1
    /\ Len(LastTrace) = 1
    /\ LastTrace[1].node_id = trav.loaded[1].id

(***************************************************************************)
(* The frontier of each round of a traversal.                              *)
(***************************************************************************)
\* The nodes kept at round d, in the order kept.
KeptAt(d) ==
    LET at == SelectSeq([i \in 1..Len(trav.traversal) |-> i],
                        LAMBDA i : trav.traversal[i].depth = d)
    IN [r \in 1..Len(at) |-> trav.selected_nodes[at[r]]]

ChildrenOf(nodes) == Concat([i \in 1..Len(nodes) |-> nodes[i].children_ids])

\* The frontier of round d: the root pointer's root_id, then the children_ids of the
\* nodes kept the round before.
FrontierOf(d) == IF d = 1 THEN <<rootPtr[1].root_id>> ELSE ChildrenOf(KeptAt(d - 1))

\* C34: the frontier of round 1 is the root pointer's root_id alone and the frontier
\* of round d+1 is the children_ids of the nodes kept at round d, in kept order; every
\* node evaluated at a round is listed in that round's frontier.
FrontierIsChildrenOfKept ==
    /\ trav.pc = "loop" => trav.current_ids = FrontierOf(trav.depth + 1)
    /\ JustRanked =>
          /\ trav.frontiers[trav.rounds] = Len(FrontierOf(trav.depth))
          /\ \A i \in 1..Len(trav.loaded) :
                trav.loaded[i].id \in Range(FrontierOf(trav.depth))
          /\ trav.loaded # <<>> => trav.current_ids = ChildrenOf(KeptAt(trav.depth))

\* A second round whose frontier joins the children of two kept nodes.
FrontierJoinsTwoKept ==
    /\ JustRanked
    /\ trav.depth = 3
    /\ Len(KeptAt(2)) = 2
    /\ KeptAt(2)[1].children_ids # <<>>
    /\ KeptAt(2)[2].children_ids # <<>>
    /\ trav.loaded # <<>>

(***************************************************************************)
(* The events one traversal publishes.                                     *)
(***************************************************************************)
EventsNamed(event) == SelectSeq(trav.events, LAMBDA e : e.payload.event = event)

EventsOfRound(d) == SelectSeq(trav.events, LAMBDA e : e.round = d)

\* C35: a traversal publishes node_evaluated for every node it loads and
\* node_selected for every node it keeps, a node's node_selected after its
\* node_evaluated, the events of a round before those of the next round, and one
\* answer_generated after them all; with no root pointer it publishes nothing.
EventsFollowRounds ==
    /\ Len(EventsNamed("node_evaluated")) = trav.evaluated
    /\ Len(EventsNamed("node_selected")) = Len(trav.selected_nodes)
    /\ JustRanked =>
          EventsOfRound(trav.depth) =
              [i \in 1..Len(trav.loaded) |->
                  NodeEvent("node_evaluated", trav.loaded[i], trav.depth)]
              \o [i \in 1..Len(LastSelected) |->
                     NodeEvent("node_selected", LastSelected[i], trav.depth)]
    /\ \A j \in 1..Len(trav.events) :
          /\ j > 1 => trav.events[j - 1].round <= trav.events[j].round
          /\ trav.events[j].payload.event = "node_selected" =>
                \E i \in 1..(j - 1) :
                    /\ trav.events[i].payload.event = "node_evaluated"
                    /\ trav.events[i].payload.node_id = trav.events[j].payload.node_id
                    /\ trav.events[i].round = trav.events[j].round
          /\ trav.events[j].payload.event = "answer_generated" =>
                j = Len(trav.events) /\ trav.pc = "done"
    /\ trav.pc = "done" /\ trav.rounds > 0 => Len(EventsNamed("answer_generated")) = 1
    /\ trav.pc = "done" /\ trav.rounds = 0 => trav.events = <<>>

\* A traversal of two rounds ended: it loaded more nodes than it kept, and published
\* answer_generated last.
TwoRoundsOfEvents ==
    /\ trav.pc = "done"
    /\ trav.rounds = 2
    /\ trav.evaluated > Len(trav.selected_nodes)
    /\ Len(trav.selected_nodes) >= 2
    /\ trav.events[Len(trav.events)] = AnswerGenerated(2)
    /\ Len(trav.events) = trav.evaluated + Len(trav.selected_nodes) + 1

\* A traversal of a store with no root pointer returned: nothing was published.
NoPointerNoEvents ==
    /\ trav.pc = "done"
    /\ rootPtr = <<>>
    /\ trav.result # <<>>
    /\ trav.events = <<>>

(***************************************************************************)
(* Two threads of the executor in the query layer, each of which may also  *)
(* have run a rebuild before.                                              *)
(***************************************************************************)
ReadersNext ==
    \/ \E t \in Requesters : NewQueryEngine(t)
    \/ \E t \in Workers :
           \/ RebuildIndex(t)
           \/ CallEngine(t, "structure", "")
           \/ SnapshotReturned(t)
           \/ BuildIndexCalled(t)
           \/ IndexDocument(t)
           \/ \E now \in 0..MaxClock : BuildGlobalHierarchicalRoot(t, now)
           \/ SaveIndexOpen(t)
           \/ SaveIndexWrite(t)
           \/ RebuildReturned(t)
           \/ EngineInitialized(t)
           \/ ReadCurrentEpoch(t)
           \/ AssignIfLatest(t)

SpecReaders == ServiceInit /\ [][ReadersNext]_vars

\* C37: the epoch of the snapshot the query layer holds never decreases: a call
\* adopts the manager's latest payload exactly when its built_at_epoch is >= the epoch
\* held, and keeps the held snapshot otherwise.
HeldEpochNeverDecreases ==
    [][/\ EpochOf(engine'.index_data) >= EpochOf(engine.index_data)
       /\ \A t \in Workers :
             svc[t].pc = "compare" /\ svc'[t].pc # "compare" =>
                 engine'.index_data = Refreshed(engine.index_data, svc[t].latest)]_vars

(***************************************************************************)
(* The two caches of the query layer, under more questions than they hold. *)
(***************************************************************************)
CacheQuestions == {"Refund policy?", "Fees?", "30 days?"}

CachesNext ==
    \E t \in Requesters :
        \/ NewQueryEngine(t)
        \/ \E question \in CacheQuestions : CallEngine(t, "query", question)
        \/ \E question \in CacheQuestions : CallEngine(t, "trace", question)
        \/ SnapshotReturned(t)
        \/ BuildIndexCalled(t)
        \/ IndexDocument(t)
        \/ \E now \in 0..MaxClock : BuildGlobalHierarchicalRoot(t, now)
        \/ SaveIndexOpen(t)
        \/ SaveIndexWrite(t)
        \/ EngineInitialized(t)
        \/ RefreshIndexIfStale(t)
        \/ TraceBuilt(t)
        \/ \E content \in Answers : ServiceAnswers(t, content)
        \/ ServiceFails(t)

SpecCaches == ServiceInit /\ [][CachesNext]_vars

\* The keys of c but key, with key behind them: key is the most recently used.
UsedLast(c, key) == Append(Without(Ids(c), key), key)

\* The keys of c after key was set in it: the least recently used key goes when the
\* cache would hold more than its capacity.
AfterSet(c, key) ==
    LET ids == UsedLast(c, key)
    IN IF Len(ids) > EngineCapacity THEN Tail(ids) ELSE ids

\* C38: the answer cache and the retrieval-trace cache never hold more entries than
\* their capacity, which is at most 128; a hit makes its key the most recently used
\* and a set evicts the least recently used key first; no step of query changes the
\* retrieval-trace cache and no step of get_retrieval_trace the answer cache.
EngineCachesBoundedLru ==
    [][/\ EngineCapacity <= EngineMaxCacheSize
       /\ Len(engine'.answer_cache) <= EngineCapacity
       /\ Len(engine'.retrieval_cache) <= EngineCapacity
       /\ \A t \in Requesters :
             /\ svc[t].op = "query" => engine'.retrieval_cache = engine.retrieval_cache
             /\ svc[t].op = "trace" => engine'.answer_cache = engine.answer_cache
             /\ svc[t].op \in {"query", "trace"} =>
                   LET name == CacheOf(svc[t].op)
                   IN /\ last'.event = "hit" =>
                            /\ Ids(engine'[name]) = UsedLast(engine[name], last'.key[1])
                            /\ InCache(engine[name], last'.key[1])
                      /\ last'.event \in {"answered", "traced"} =>
                            Ids(engine'[name]) = AfterSet(engine[name], last'.key[1])
                      /\ last'.event \notin {"hit", "answered", "traced"} =>
                            engine'[name] = engine[name]]_vars

\* An answer was set in a full answer cache that did not hold its key: the key that
\* was used longest ago is gone, while the retrieval-trace cache holds its entries.
AnswerEvictsLeastRecent ==
    /\ last.event = "answered"
    /\ Len(last.cache_before) = EngineCapacity
    /\ ~InCache(last.cache_before, last.key[1])
    /\ ~InCache(engine.answer_cache, Head(last.cache_before).id)
    /\ Len(engine.answer_cache) = EngineCapacity
    /\ Len(engine.retrieval_cache) = EngineCapacity

(***************************************************************************)
(* Uploads and their rebuild jobs, run by the threads of the API process.  *)
(***************************************************************************)
MaxJobs == 2

JobsNext ==
    \/ Uploaded(1, MaxSvcWords, MaxJobs)
    \/ \E t \in Workers :
           \/ \E job_id \in DOMAIN upload_jobs : RebuildIndexJob(t, job_id)
           \/ AcquireRebuildLock(t)
           \/ BuildIndexCalled(t)
           \/ IndexDocument(t)
           \/ IndexDocumentFails(t)
           \/ \E now \in 0..MaxClock : BuildGlobalHierarchicalRoot(t, now)
           \/ SaveIndexOpen(t)
           \/ SaveIndexWrite(t)
           \/ RebuildReturned(t)
           \/ JobEnds(t)

SpecJobs == ServiceInit /\ [][JobsNext]_vars

JobMoves == {<<"queued", "running">>, <<"running", "success">>, <<"running", "failed">>}

\* The thread that runs job_id has left "with _rebuild_lock" at pc, holding no lock.
LeftRebuild(job_id, pc) ==
    \E t \in Workers :
        /\ svc[t].pc = pc
        /\ svc[t].job_id = <<job_id>>
        /\ rebuild_lock # <<t>>
        /\ data_lock # <<t>>

\* C39: the status of an upload job moves only from queued to running and from
\* running to success or failed, which are final; a job has an error exactly when
\* it is failed, and it becomes failed exactly when its rebuild raised, the rebuild
\* lock released by then, so that the jobs after it are not held up.
JobStatusMovesForward ==
    [][/\ Len(upload_jobs') >= Len(upload_jobs)
       /\ \A job_id \in DOMAIN upload_jobs' \ DOMAIN upload_jobs :
             upload_jobs'[job_id] = QueuedJob(upload_jobs'[job_id].filename)
       /\ \A job_id \in DOMAIN upload_jobs :
             LET old == upload_jobs[job_id]
                 new == upload_jobs'[job_id]
             IN /\ new.status = old.status \/ <<old.status, new.status>> \in JobMoves
                /\ new.error # <<>> <=> new.status = "failed"
                /\ new.status = old.status => new = old
                /\ (old.status = "running" /\ new.status = "failed") =>
                       LeftRebuild(job_id, "except")
                /\ (old.status = "running" /\ new.status = "success") =>
                       LeftRebuild(job_id, "rebuilt")
       /\ \A t \in Workers :
             svc[t].pc \in {"rebuilt", "except"} =>
                 /\ upload_jobs[svc[t].job_id[1]].status = "running"
                 /\ upload_jobs'[svc[t].job_id[1]].status =
                        (IF svc'[t].pc = svc[t].pc THEN "running"
                         ELSE IF svc[t].pc = "except" THEN "failed" ELSE "success")]_vars

\* The first job failed, with its error, and the job after it succeeded.
JobAfterFailedJobSucceeds ==
    /\ Len(upload_jobs) = 2
    /\ upload_jobs[1].status = "failed"
    /\ upload_jobs[1].error # <<>>
    /\ upload_jobs[2].status = "success"
    /\ upload_jobs[2].error = <<>>
    /\ rebuild_lock = <<>>

(***************************************************************************)
(* PageIndexManager(...) and QueryEngine(...), called by several threads:  *)
(* __new__, then __init__ on the object that __new__ returned.             *)
(***************************************************************************)
Classes == {"manager", "engine"}

NewObject == [initialized |-> "unset", inits |-> 0]

frameClasses ==
    <<storeVars, threadVars, histVars, buildVars, trav, docVars, mgrVars, apiVars,
      auditVars, busVars, cli, upload_jobs>>

\* cls(...): the call begins.
ClassCalled(c, t) ==
    /\ \A d \in Classes : classes[d].call[t].pc = "idle"
    /\ classes' = [classes EXCEPT ![c].call[t] = [pc |-> "new", got |-> <<>>]]
    /\ UNCHANGED frameClasses

\* PageIndexManager.__new__: under _instance_lock, the instance is made when there
\* is none, with _initialized = False; cls._instance is returned.
ManagerNew(t) ==
    /\ classes.manager.call[t].pc = "new"
    /\ LET k == classes.manager
           made == IF k.instance = <<>>
                   THEN [k EXCEPT !.objects = Append(@, [NewObject EXCEPT
                                                           !.initialized = "false"]),
                                  !.instance = <<Len(k.objects) + 1>>]
                   ELSE k
       IN classes' = [classes EXCEPT
                        !.manager = [made EXCEPT !.call[t] = [pc |-> "init",
                                                              got |-> made.instance]]]
    /\ UNCHANGED frameClasses

\* QueryEngine.__new__ holds no lock.  if cls._instance is None:
EngineNewTest(t) ==
    /\ classes.engine.call[t].pc = "new"
    /\ classes' = [classes EXCEPT
                     !.engine.call[t].pc = IF classes.engine.instance = <<>>
                                           THEN "make" ELSE "return"]
    /\ UNCHANGED frameClasses

\* cls._instance = super().__new__(cls)
EngineNewMake(t) ==
    /\ classes.engine.call[t].pc = "make"
    /\ classes' = [classes EXCEPT
                     !.engine.objects = Append(@, NewObject),
                     !.engine.instance = <<Len(classes.engine.objects) + 1>>,
                     !.engine.call[t].pc = "flag"]
    /\ UNCHANGED frameClasses

\* cls._instance._initialized = False
EngineNewFlag(t) ==
    /\ classes.engine.call[t].pc = "flag"
    /\ classes' = [classes EXCEPT
                     !.engine.objects[classes.engine.instance[1]].initialized = "false",
                     !.engine.call[t].pc = "return"]
    /\ UNCHANGED frameClasses

\* return cls._instance
EngineNewReturn(t) ==
    /\ classes.engine.call[t].pc = "return"
    /\ classes' = [classes EXCEPT
                     !.engine.call[t] = [pc |-> "init", got |-> classes.engine.instance]]
    /\ UNCHANGED frameClasses

\* __init__: if self._initialized: return.  An object whose _initialized is not set
\* yet makes the test raise AttributeError.
InitTest(c, t) ==
    /\ classes[c].call[t].pc = "init"
    /\ LET flag == classes[c].objects[classes[c].call[t].got[1]].initialized
       IN classes' = [classes EXCEPT
                        ![c].call[t].pc = CASE flag = "true" -> "idle"
                                            [] flag = "false" -> "body"
                                            [] OTHER -> "raised"]
    /\ UNCHANGED frameClasses

\* The rest of __init__: the settings, the locks, the caches, the snapshot, and
\* self._initialized = True.
InitBody(c, t) ==
    /\ classes[c].call[t].pc = "body"
    /\ LET self == classes[c].call[t].got[1]
       IN classes' = [classes EXCEPT
                        ![c].objects[self] = [initialized |-> "true",
                                              inits |-> @.inits + 1],
                        ![c].call[t].pc = "idle"]
    /\ UNCHANGED frameClasses

\* The caller has the AttributeError.
CallRaised(c, t) ==
    /\ classes[c].call[t].pc = "raised"
    /\ classes' = [classes EXCEPT ![c].call[t] = NoClassCall]
    /\ UNCHANGED frameClasses

SingletonsNext ==
    \E t \in Workers :
        \/ \E c \in Classes : ClassCalled(c, t) \/ InitTest(c, t) \/ InitBody(c, t)
                                 \/ CallRaised(c, t)
        \/ ManagerNew(t)
        \/ EngineNewTest(t)
        \/ EngineNewMake(t)
        \/ EngineNewFlag(t)
        \/ EngineNewReturn(t)

SpecSingletons == ServiceInit /\ [][SingletonsNext]_vars

\* The class has made one object at most, the initialiser has run to its end once at
\* most on each object, and no caller got another object than the other callers.
MadeOnce(c) ==
    /\ Len(classes[c].objects) <= 1
    /\ \A k \in DOMAIN classes[c].objects : classes[c].objects[k].inits <= 1
    /\ \A t, u \in Workers :
          (classes[c].call[t].got # <<>> /\ classes[c].call[u].got # <<>>) =>
              classes[c].call[t].got = classes[c].call[u].got
    /\ \A t \in Workers : classes[c].call[t].pc # "raised"

\* C40: under first calls of several threads at once, PageIndexManager and
\* QueryEngine are each created once and initialised once: the callers get one and
\* the same instance, on which the initialiser does not run a second time.
SingletonsMadeOnce == \A c \in Classes : MadeOnce(c)

====
